---------------------------- MODULE Spec2Model ----------------------------
(***************************************************************************)
(* Model of the iTunes Search API access engine:                           *)
(*   - tokenBucket.take        (internal/client/rate_limiter.go)           *)
(*   - Client.doRequest        (internal/client, client.go)                *)
(*   - Client.Lookup           (internal/client/lookup.go)                 *)
(*   - executeLookup and its helpers                                       *)
(*                             (internal/resources/content/helpers.go)     *)
(*                                                                         *)
(* Each caller (goroutine) is a process with a program counter.  A blocking*)
(* call is a sequence of steps; a callee hands its result to its caller in *)
(* a *_ret position, and the caller's next step consumes it.               *)
(*                                                                         *)
(* Time is counted in whole seconds.  Token amounts are fixed-point: one   *)
(* token is TokenUnit units, chosen so that the refill rate                *)
(* RateLimitRequests / RateLimitDuration tokens per second is exactly one  *)
(* unit per second and all of take's arithmetic is exact.                  *)
(***************************************************************************)
EXTENDS Integers, Sequences, FiniteSets, TLC

VARIABLES
    now,            \* wall clock (time.Now), seconds since construction
    tokens,         \* tokenBucket.tokens, in units of 1/TokenUnit token
    lastRefillTime, \* tokenBucket.lastRefillTime
    mu,             \* tokenBucket.mu: the caller holding it, or NoProc
    pc,             \* per caller: position in the code
    call,           \* per caller: the operation the caller invoked
    ctxDone,        \* per caller: ctx.Done() is closed
    deadline,       \* per caller: expiry of the time.After of the select it is in
    woke,           \* per caller: the case its select resumes with ("park": none yet)
    takeErr,        \* per caller: the value take returned
    retryCount,     \* per caller: doRequest's retryCount
    rqOut,          \* per caller: what doRequest returned ("ok" or the error)
    body,           \* per caller: body of the response doRequest returned
    status,         \* per caller: resp.StatusCode of the last response (0: none)
    retryAfter,     \* per caller: doRequest's retryAfter, the header of the last 429
    rqErr,          \* per caller: the error value doRequest returned
    req,            \* per caller: the LookupRequest given to Lookup
    lkRes,          \* per caller: Lookup's *ContentResponse return value
    lkErr,          \* per caller: Lookup's error return value
    dispatched,     \* history: Lookup calls made by the running operation
    data,           \* per caller: the ContentDataSourceModel of executeLookup
    batches,        \* per caller: executeLookupIDs' batches
    bi,             \* per caller: index of the batch being looked up
    results,        \* per caller: executeLookupIDs' results accumulator
    allMissingIDs,  \* per caller: executeLookupIDs' allMissingIDs
    allMissingURLs, \* per caller: executeLookupAppStoreURLs' allMissingURLs
    helper,         \* per caller: the setter and autoAlign given to the field helper
    outResults,     \* per caller: the result list executeLookupIDs returned
    outDiags,       \* per caller: the diagnostics executeLookupIDs returned
    ret,            \* per caller: outcome of the last finished operation
    granted,        \* history: tokens handed out since construction
    blocked,        \* history: the running operation parked in take's select
    ctxAtCall,      \* history: ctx was already cancelled when the operation began
    sawToken,       \* history: the last check of the running take found a whole token
    attempts,       \* history: HTTP requests sent by the running doRequest
    hist,           \* history: the server's answers to those requests, in order
    cancelledInSleep, \* history: ctx was cancelled while doRequest was parked in its retry sleep
    logs,           \* history: per caller, what the running doRequest gave to the Logger
    unclosed,       \* history: response bodies the running doRequest received and has not closed
    logger,         \* Client.logger is set
    fn,             \* the pure function under examination ("none" when there is none)
    args,           \* the arguments it is called with
    result          \* its return value, once it has returned

----------------------------------------------------------------------------
(* Program constants (internal/common constants).                          *)

RateLimitRequests == 20

RateLimitDuration == 60

MaxRetries == 5

MaxRetryWait == 60

(* Bounds of the model.                                                    *)

NumProcs == 2

MaxTime == 3

\* Track IDs are 1..MaxID.
MaxID == 2

\* Longest identifier list given to Lookup.
MaxIDs == 3

\* Longest list given to ChunkInt64 / ChunkStrings on their own.
MaxListLen == 4

\* Largest batch size given to ChunkInt64 / ChunkStrings on their own.
MaxBatch == 3

\* common.MaxLookupBatchSize is 200; the model batches by this smaller size.
MaxLookupBatchSize == 1

\* Calls of take beyond the RateLimitRequests a full bucket serves at once,
\* where every caller makes finitely many.
ExtraTakes == 2

\* Longest response body, and longest payload of a well-formed JSONP body.
MaxBody == 5

MaxPayload == 2

----------------------------------------------------------------------------
Procs == 1..NumProcs

NoProc == 0

Min(a, b) == IF a < b THEN a ELSE b

\* One token in fixed-point units.
TokenUnit == RateLimitDuration \div RateLimitRequests

\* newTokenBucket: maxTokens = float64(maxRequests).
maxTokens == RateLimitRequests * TokenUnit

\* newTokenBucket: refillRate = maxRequests / perDuration.Seconds(), units per second.
refillRate == (RateLimitRequests * TokenUnit) \div RateLimitDuration

\* Mutant: the bucket starts with a burst of one token.
InitialTokensBurstOne == TokenUnit

\* newTokenBucket: the bucket starts full.
InitialTokens == maxTokens

limiterVars == <<tokens, lastRefillTime, mu>>
selVars == <<deadline, woke>>
reqVars == <<retryCount, rqOut, body>>
lkVars == <<req, lkRes, lkErr, dispatched>>
exVars == <<data, batches, bi, results, allMissingIDs, outResults, outDiags,
           allMissingURLs, helper>>
topVars == <<ret, blocked, ctxAtCall, sawToken>>
reqHist == <<attempts, hist, cancelledInSleep, logs, unclosed>>
pureVars == <<fn, args, result>>
respVars == <<status, retryAfter, rqErr>>
vars == <<now, limiterVars, pc, call, ctxDone, selVars, takeErr, reqVars, lkVars,
          exVars, topVars, granted, reqHist, pureVars, logger, respVars>>

----------------------------------------------------------------------------
(* select { case <-ctx.Done(): ...; case <-time.After(d): ... }            *)
(* A case that is ready when the select is entered is taken at once (one   *)
(* of them at random when both are); otherwise the caller parks and the    *)
(* first event to happen (cancellation or timer expiry) decides the case.  *)
SelectEntry(p, d) ==
    IF ctxDone[p] /\ d <= 0 THEN {"ctx", "timer"}
    ELSE IF ctxDone[p] THEN {"ctx"}
    ELSE IF d <= 0 THEN {"timer"}
    ELSE {"park"}

InSelect(p) == pc[p] \in {"take_select", "req_select"}


----------------------------------------------------------------------------
(* tokenBucket.take                                                        *)

\* Mutant: the elapsed time is not credited.
RefilledNoElapsed == Min(tokens, maxTokens)

\* Mutant: the time since construction is credited on every call.
RefilledSinceStart == Min(tokens + now * refillRate, maxTokens)

\* take, lines 40-46: refill for the elapsed time, capped at maxTokens.
Refilled == Min(tokens + (now - lastRefillTime) * refillRate, maxTokens)

\* Mutant: any fraction of a token counts.
HasTokenAny(t) == t > 0

\* Mutant: the test is against zero instead of one token.
HasTokenNonNegative(t) == t >= 0

\* take, line 48: a whole token is available.
HasToken(t) == t >= TokenUnit

\* take, lines 54-55: time needed to accumulate the shortfall.
WaitDuration(t) == (TokenUnit - t) \div refillRate

\* A caller begins a new operation op with its context.
BeginOp(p, op) ==
    /\ pc[p] = "idle"
    /\ call' = [call EXCEPT ![p] = op]
    /\ ret' = [ret EXCEPT ![p] = "none"]
    /\ blocked' = [blocked EXCEPT ![p] = FALSE]
    /\ ctxAtCall' = [ctxAtCall EXCEPT ![p] = ctxDone[p]]
    /\ sawToken' = [sawToken EXCEPT ![p] = FALSE]

\* A caller invokes take directly (any number of times, one call at a time).
CallTake(p) ==
    /\ BeginOp(p, "take")
    /\ pc' = [pc EXCEPT ![p] = "take_lock"]
    /\ UNCHANGED <<now, limiterVars, ctxDone, selVars, takeErr, reqVars, lkVars,
                   exVars, granted, reqHist, pureVars, logger, respVars>>

\* take, line 38: tb.mu.Lock()
TakeLock(p) ==
    /\ pc[p] = "take_lock"
    /\ mu = NoProc
    /\ mu' = p
    /\ pc' = [pc EXCEPT ![p] = "take_crit"]
    /\ UNCHANGED <<now, tokens, lastRefillTime, call, ctxDone, selVars, takeErr,
                   reqVars, lkVars, exVars, topVars, granted, reqHist, pureVars, logger, respVars>>

\* Mutant: nil is returned without the Unlock of line 50.
TakeGrantLocked(p) ==
    /\ pc[p] = "take_crit"
    /\ HasToken(Refilled)
    /\ tokens' = Refilled - TokenUnit
    /\ lastRefillTime' = now
    /\ granted' = granted + 1
    /\ takeErr' = [takeErr EXCEPT ![p] = "nil"]
    /\ pc' = [pc EXCEPT ![p] = "take_ret"]
    /\ sawToken' = [sawToken EXCEPT ![p] = Refilled >= TokenUnit]
    /\ UNCHANGED <<now, mu, call, ctxDone, selVars, reqVars, lkVars, exVars, ret, blocked,
                   ctxAtCall, reqHist, pureVars, logger, respVars>>

\* take, lines 39-52: refill, then take a token, unlock and return nil.
TakeGrant(p) ==
    /\ pc[p] = "take_crit"
    /\ HasToken(Refilled)
    /\ tokens' = Refilled - TokenUnit
    /\ lastRefillTime' = now
    /\ mu' = NoProc
    /\ granted' = granted + 1
    /\ takeErr' = [takeErr EXCEPT ![p] = "nil"]
    /\ pc' = [pc EXCEPT ![p] = "take_ret"]
    /\ sawToken' = [sawToken EXCEPT ![p] = Refilled >= TokenUnit]
    /\ UNCHANGED <<now, call, ctxDone, selVars, reqVars, lkVars, exVars, ret, blocked,
                   ctxAtCall, reqHist, pureVars, logger, respVars>>

\* Mutant: the select is entered without the Unlock of line 56.
TakeWaitLocked(p) ==
    /\ pc[p] = "take_crit"
    /\ ~HasToken(Refilled)
    /\ tokens' = Refilled
    /\ lastRefillTime' = now
    /\ \E w \in SelectEntry(p, WaitDuration(Refilled)) :
         /\ woke' = [woke EXCEPT ![p] = w]
         /\ blocked' = [blocked EXCEPT ![p] = blocked[p] \/ w = "park"]
    /\ deadline' = [deadline EXCEPT ![p] = now + WaitDuration(Refilled)]
    /\ pc' = [pc EXCEPT ![p] = "take_select"]
    /\ sawToken' = [sawToken EXCEPT ![p] = Refilled >= TokenUnit]
    /\ UNCHANGED <<now, mu, call, ctxDone, takeErr, reqVars, lkVars, exVars, ret,
                   ctxAtCall, granted, reqHist, pureVars, logger, respVars>>

\* Mutant: the token waited for is reserved, subtracted before the wait.
TakeWaitReserves(p) ==
    /\ pc[p] = "take_crit"
    /\ ~HasToken(Refilled)
    /\ tokens' = Refilled - TokenUnit
    /\ lastRefillTime' = now
    /\ mu' = NoProc
    /\ \E w \in SelectEntry(p, WaitDuration(Refilled)) :
         /\ woke' = [woke EXCEPT ![p] = w]
         /\ blocked' = [blocked EXCEPT ![p] = blocked[p] \/ w = "park"]
    /\ deadline' = [deadline EXCEPT ![p] = now + WaitDuration(Refilled)]
    /\ pc' = [pc EXCEPT ![p] = "take_select"]
    /\ sawToken' = [sawToken EXCEPT ![p] = Refilled >= TokenUnit]
    /\ UNCHANGED <<now, call, ctxDone, takeErr, reqVars, lkVars, exVars, ret,
                   ctxAtCall, granted, reqHist, pureVars, logger, respVars>>

\* take, lines 39-47 and 54-58: refill, no token: unlock and enter the select.
TakeWait(p) ==
    /\ pc[p] = "take_crit"
    /\ ~HasToken(Refilled)
    /\ tokens' = Refilled
    /\ lastRefillTime' = now
    /\ mu' = NoProc
    /\ \E w \in SelectEntry(p, WaitDuration(Refilled)) :
         /\ woke' = [woke EXCEPT ![p] = w]
         /\ blocked' = [blocked EXCEPT ![p] = blocked[p] \/ w = "park"]
    /\ deadline' = [deadline EXCEPT ![p] = now + WaitDuration(Refilled)]
    /\ pc' = [pc EXCEPT ![p] = "take_select"]
    /\ sawToken' = [sawToken EXCEPT ![p] = Refilled >= TokenUnit]
    /\ UNCHANGED <<now, call, ctxDone, takeErr, reqVars, lkVars, exVars, ret,
                   ctxAtCall, granted, reqHist, pureVars, logger, respVars>>

\* take, lines 59-60: case <-ctx.Done(): return ctx.Err()
TakeCancelled(p) ==
    /\ pc[p] = "take_select"
    /\ woke[p] = "ctx"
    /\ takeErr' = [takeErr EXCEPT ![p] = "ctx"]
    /\ pc' = [pc EXCEPT ![p] = "take_ret"]
    /\ UNCHANGED <<now, limiterVars, call, ctxDone, selVars, reqVars, lkVars, exVars,
                   topVars, granted, reqHist, pureVars, logger, respVars>>

\* take, lines 61-63: case <-time.After(waitDuration): run the loop again.
TakeRetry(p) ==
    /\ pc[p] = "take_select"
    /\ woke[p] = "timer"
    /\ pc' = [pc EXCEPT ![p] = "take_lock"]
    /\ UNCHANGED <<now, limiterVars, call, ctxDone, selVars, takeErr, reqVars, lkVars,
                   exVars, topVars, granted, reqHist, pureVars, logger, respVars>>

\* take returns to a caller that invoked it directly.
TakeReturn(p) ==
    /\ pc[p] = "take_ret"
    /\ call[p] = "take"
    /\ pc' = [pc EXCEPT ![p] = "idle"]
    /\ ret' = [ret EXCEPT ![p] = IF takeErr[p] = "nil" THEN "ok" ELSE "cancelled"]
    /\ UNCHANGED <<now, limiterVars, call, ctxDone, selVars, takeErr, reqVars, lkVars,
                   exVars, blocked, ctxAtCall, sawToken, granted, reqHist, pureVars, logger, respVars>>

----------------------------------------------------------------------------
(* The server's answers.                                                   *)

\* time.Duration is a signed 64-bit count of nanoseconds whose arithmetic
\* wraps.  The model counts whole seconds in a signed integer of DurationBits
\* bits, which wraps the same way: the largest duration is MaxDuration seconds.
DurationBits == 8

MaxDuration == 2 ^ (DurationBits - 1) - 1

\* The sum d as time.Duration arithmetic yields it.
WrapDuration(d) == ((d + MaxDuration + 1) % (2 * (MaxDuration + 1))) - (MaxDuration + 1)

\* Values of a Retry-After header that time.ParseDuration(v + "s") accepts.
RetryAfterSeconds == {-1, 0, 59, 60, MaxDuration}

\* Retry-After: absent (""), present but rejected by ParseDuration (not a
\* number, or beyond MaxDuration), or seconds.
NoRetryAfter == [present |-> FALSE, parses |-> FALSE, secs |-> 0]

BadRetryAfter == [present |-> TRUE, parses |-> FALSE, secs |-> 0]

RetryAfter(s) == [present |-> TRUE, parses |-> TRUE, secs |-> s]

RetryAfterHeaders ==
    {NoRetryAfter, BadRetryAfter} \cup {RetryAfter(s) : s \in RetryAfterSeconds}

\* The kind of a 429 answer: with a usable Retry-After ("429v") or without.
Answer429(h) == IF h.present /\ h.parses THEN "429v" ELSE "429n"

\* The headers of the servers the lookup specifications talk to.
LookupRetryAfterHeaders == {NoRetryAfter, RetryAfter(0)}

\* Status codes other than 200 and 429 that the server answers with.
ErrorStatuses == {404, 500}

\* No response body (doRequest has returned none so far).
NoBody == [valid |-> FALSE, Results |-> <<>>]

----------------------------------------------------------------------------
(* Client.doRequest                                                        *)

\* error values: nil; errors.New / fmt.Errorf without %w (*errors.errorString,
\* code: the number formatted into the message); fmt.Errorf with %w
\* (*fmt.wrapError); context.Canceled.
NoRqError == [type |-> "nil", msg |-> "", code |-> 0]

ErrorString(msg, code) == [type |-> "errorString", msg |-> msg, code |-> code]

WrapError(msg) == [type |-> "wrapError", msg |-> msg, code |-> 0]

Canceled == [type |-> "errorString", msg |-> "context canceled", code |-> 0]

\* Mutant: the budget check is off by one.
RetriesExhaustedLate(rc) == rc > MaxRetries

\* doRequest, line 230: the retry budget is used up.
RetriesExhausted(rc) == rc >= MaxRetries

\* Mutant: the parse error is ignored.
ValidRetryAfterUnparsed(h) == h.present

\* doRequest, lines 234-236: the header is there and parses.
ValidRetryAfter(h) == h.present /\ h.parses

\* Mutant: the cap is missing.
RetryWaitUncapped(h) == WrapDuration(h.secs + 1)

\* doRequest, lines 237-240: seconds + 1s, capped at MaxRetryWait.
RetryWait(h) ==
    LET waitDuration == WrapDuration(h.secs + 1)
    IN  IF waitDuration > MaxRetryWait THEN MaxRetryWait ELSE waitDuration

\* What no step of doRequest touches.
reqFrame == <<now, limiterVars, call, ctxDone, takeErr, lkVars, exVars, topVars, granted,
              pureVars, logger>>

\* What the Logger is given: LogRequest, LogResponse with the status and
\* whether the body was read for it, LogAuth with its message.
LogRequest == [event |-> "LogRequest", status |-> 0, withBody |-> FALSE, msg |-> ""]

LogResponse(sc, withBody) ==
    [event |-> "LogResponse", status |-> sc, withBody |-> withBody, msg |-> ""]

LogAuth(msg) == [event |-> "LogAuth", status |-> 0, withBody |-> FALSE, msg |-> msg]

\* if c.logger != nil { c.logger.Log...(...) }, for each of the events in turn.
Logged(p, events) == logs' = [logs EXCEPT ![p] = IF logger THEN @ \o events ELSE @]

\* A response has been received; its body is closed before the step ends
\* (resp.Body.Close(), lines 210, 216, 227) or is left open.
BodyReceived(p, closed) ==
    unclosed' = [unclosed EXCEPT ![p] = IF closed THEN @ ELSE @ + 1]

\* doRequest is entered: line 182 invokes take.
EnterDoRequest(p) ==
    /\ pc' = [pc EXCEPT ![p] = "take_lock"]
    /\ retryCount' = [retryCount EXCEPT ![p] = 0]
    /\ rqOut' = [rqOut EXCEPT ![p] = "none"]
    /\ body' = [body EXCEPT ![p] = NoBody]
    /\ status' = [status EXCEPT ![p] = 0]
    /\ retryAfter' = [retryAfter EXCEPT ![p] = NoRetryAfter]
    /\ rqErr' = [rqErr EXCEPT ![p] = NoRqError]
    /\ attempts' = [attempts EXCEPT ![p] = 0]
    /\ hist' = [hist EXCEPT ![p] = <<>>]
    /\ cancelledInSleep' = [cancelledInSleep EXCEPT ![p] = FALSE]
    /\ unclosed' = [unclosed EXCEPT ![p] = 0]
    /\ logs' = [logs EXCEPT ![p] = <<>>]

\* doRequest returns to its caller: out names the outcome, err is the error.
LeaveDoRequest(p, out, err) ==
    /\ pc' = [pc EXCEPT ![p] = "rq_ret"]
    /\ rqOut' = [rqOut EXCEPT ![p] = out]
    /\ rqErr' = [rqErr EXCEPT ![p] = err]

\* A caller invokes doRequest directly.
CallDoRequest(p) ==
    /\ call[p] = "none"
    /\ BeginOp(p, "doRequest")
    /\ EnterDoRequest(p)
    /\ UNCHANGED <<now, limiterVars, ctxDone, selVars, takeErr, lkVars, exVars, granted,
                   pureVars, logger>>

\* Mutant: the error of take is dropped and the request goes ahead.
ReqAfterTakeIgnoresError(p) ==
    /\ pc[p] = "take_ret"
    /\ call[p] # "take"
    /\ pc' = [pc EXCEPT ![p] = "req_send"]
    /\ Logged(p, <<LogRequest>>)
    /\ UNCHANGED <<rqOut, rqErr>>
    /\ UNCHANGED <<reqFrame, selVars, retryCount, body, status, retryAfter, attempts, hist,
                   cancelledInSleep, unclosed>>

\* doRequest, lines 182-197: take's result; on success build the request.
\* (http.NewRequestWithContext cannot fail for the URLs the client builds.)
ReqAfterTake(p) ==
    /\ pc[p] = "take_ret"
    /\ call[p] # "take"
    /\ IF takeErr[p] # "nil"
       THEN /\ LeaveDoRequest(p, "limiter", WrapError("rate limiter error: %w"))
            /\ UNCHANGED logs
       ELSE /\ pc' = [pc EXCEPT ![p] = "req_send"]
            /\ Logged(p, <<LogRequest>>)
            /\ UNCHANGED <<rqOut, rqErr>>
    /\ UNCHANGED <<reqFrame, selVars, retryCount, body, status, retryAfter, attempts, hist,
                   cancelledInSleep, unclosed>>

\* doRequest, lines 199-202: apiClient.Do with a context that is already
\* cancelled fails before anything is sent.
ReqCtxDead(p) ==
    /\ pc[p] = "req_send"
    /\ ctxDone[p]
    /\ LeaveDoRequest(p, "transport", WrapError("error making request: %w"))
    /\ UNCHANGED <<reqFrame, selVars, retryCount, body, status, retryAfter, reqHist>>

\* The request goes out; the server's answer of kind k, status sc (0: no
\* response), is recorded.
Sent(p, k, sc) ==
    /\ pc[p] = "req_send"
    /\ ~ctxDone[p]
    /\ status' = [status EXCEPT ![p] = sc]
    /\ attempts' = [attempts EXCEPT ![p] = attempts[p] + 1]
    /\ hist' = [hist EXCEPT ![p] = Append(hist[p], k)]
    /\ UNCHANGED cancelledInSleep

\* doRequest, lines 199-202: transport error.
ReqTransportError(p) ==
    /\ Sent(p, "neterr", 0)
    /\ LeaveDoRequest(p, "transport", WrapError("error making request: %w"))
    /\ UNCHANGED <<logs, unclosed>>
    /\ UNCHANGED <<reqFrame, selVars, retryCount, body, retryAfter>>

\* doRequest, lines 204-219: status 200, the response is returned.
ReqOK(p, b) ==
    /\ Sent(p, "200", 200)
    /\ Logged(p, <<LogResponse(200, TRUE)>>)
    /\ BodyReceived(p, FALSE)
    /\ LeaveDoRequest(p, "ok", NoRqError)
    /\ body' = [body EXCEPT ![p] = b]
    /\ UNCHANGED <<reqFrame, selVars, retryCount, retryAfter>>

\* Mutant: a status other than 200 is retried like a 429.
ReqStatusErrorRetried(p, sc) ==
    /\ ~RetriesExhausted(retryCount[p] + 1)
    /\ Sent(p, "other", sc)
    /\ Logged(p, <<LogResponse(sc, TRUE)>>)
    /\ BodyReceived(p, TRUE)
    /\ retryCount' = [retryCount EXCEPT ![p] = retryCount[p] + 1]
    /\ pc' = [pc EXCEPT ![p] = "req_send"]
    /\ UNCHANGED <<reqFrame, selVars, rqOut, rqErr, body, retryAfter>>

\* doRequest, lines 204-218: a status other than 200 and 429.
ReqStatusError(p, sc) ==
    /\ Sent(p, "other", sc)
    /\ Logged(p, <<LogResponse(sc, TRUE)>>)
    /\ BodyReceived(p, TRUE)
    /\ LeaveDoRequest(p, "status",
                      ErrorString("API request failed with status code: %d", sc))
    /\ UNCHANGED <<reqFrame, selVars, retryCount, body, retryAfter>>

\* doRequest, lines 204-209: with a Logger, the body of an answer other
\* than 429 is read before anything else, and the read fails.
ReqReadBodyError(p, sc) ==
    /\ logger
    /\ Sent(p, IF sc = 200 THEN "200" ELSE "other", sc)
    /\ BodyReceived(p, FALSE)
    /\ LeaveDoRequest(p, "read_body", WrapError("failed to read response body: %w"))
    /\ UNCHANGED <<reqFrame, selVars, retryCount, body, retryAfter, logs>>

\* doRequest, lines 222-229: status 429 is logged, the header is read, the
\* retry counted; auth is what lines 241-247 or 255-260 log after that.
Got429(p, h, auth) ==
    /\ Sent(p, Answer429(h), 429)
    /\ BodyReceived(p, TRUE)
    /\ Logged(p, <<LogResponse(429, FALSE)>> \o auth)
    /\ retryAfter' = [retryAfter EXCEPT ![p] = h]
    /\ retryCount' = [retryCount EXCEPT ![p] = retryCount[p] + 1]

\* doRequest, lines 222-232: 429 that uses up the retry budget.
Req429Exhausted(p, h) ==
    /\ RetriesExhausted(retryCount[p] + 1)
    /\ Got429(p, h, <<>>)
    /\ LeaveDoRequest(p, "exhausted",
                      ErrorString("exceeded maximum retries (%d) for rate-limited requests",
                                  MaxRetries))
    /\ UNCHANGED <<reqFrame, selVars, body>>

\* Mutant: the sleep and the continue are missing, the 429 is final.
Req429SleepGivesUp(p, h) ==
    /\ ~RetriesExhausted(retryCount[p] + 1)
    /\ ValidRetryAfter(h)
    /\ Got429(p, h, <<>>)
    /\ LeaveDoRequest(p, "no_retry_after",
                      ErrorString("received 429 Too Many Requests with no valid Retry-After header", 0))
    /\ UNCHANGED <<reqFrame, selVars, body>>

\* doRequest, lines 222-248: 429 with a usable Retry-After: enter the sleep.
Req429Sleep(p, h) ==
    /\ ~RetriesExhausted(retryCount[p] + 1)
    /\ ValidRetryAfter(h)
    /\ Got429(p, h, <<LogAuth("Rate limited, waiting before retry")>>)
    /\ \E w \in SelectEntry(p, RetryWait(h)) : woke' = [woke EXCEPT ![p] = w]
    /\ deadline' = [deadline EXCEPT ![p] = now + RetryWait(h)]
    /\ pc' = [pc EXCEPT ![p] = "req_select"]
    /\ UNCHANGED <<reqFrame, rqOut, rqErr, body>>

\* Mutant: the Retry-After header is examined before the retry count.
Req429NoRetryAfterFirst(p, h) ==
    /\ ~ValidRetryAfter(h)
    /\ Got429(p, h, IF h.present
                    THEN <<LogAuth("Failed to parse Retry-After header")>> ELSE <<>>)
    /\ LeaveDoRequest(p, "no_retry_after",
                      ErrorString("received 429 Too Many Requests with no valid Retry-After header", 0))
    /\ UNCHANGED <<reqFrame, selVars, body>>

\* doRequest, lines 222-234 and 255-263: 429 without a usable Retry-After.
Req429NoRetryAfter(p, h) ==
    /\ ~RetriesExhausted(retryCount[p] + 1)
    /\ ~ValidRetryAfter(h)
    /\ Got429(p, h, IF h.present
                    THEN <<LogAuth("Failed to parse Retry-After header")>> ELSE <<>>)
    /\ LeaveDoRequest(p, "no_retry_after",
                      ErrorString("received 429 Too Many Requests with no valid Retry-After header", 0))
    /\ UNCHANGED <<reqFrame, selVars, body>>

\* Mutant: the cancelled sleep goes on to the next attempt.
ReqSleepCancelledContinues(p) ==
    /\ pc[p] = "req_select"
    /\ woke[p] = "ctx"
    /\ pc' = [pc EXCEPT ![p] = "req_send"]
    /\ UNCHANGED <<reqFrame, selVars, reqVars, respVars, reqHist>>

\* doRequest, lines 249-250: case <-ctx.Done(): return nil, ctx.Err()
ReqSleepCancelled(p) ==
    /\ pc[p] = "req_select"
    /\ woke[p] = "ctx"
    /\ LeaveDoRequest(p, "cancelled", Canceled)
    /\ UNCHANGED <<reqFrame, selVars, retryCount, body, status, retryAfter, reqHist>>

\* doRequest, lines 251-253: case <-time.After(waitDuration): continue
ReqSleepDone(p) ==
    /\ pc[p] = "req_select"
    /\ woke[p] = "timer"
    /\ pc' = [pc EXCEPT ![p] = "req_send"]
    /\ UNCHANGED <<reqFrame, selVars, reqVars, respVars, reqHist>>

\* doRequest returns to a caller that invoked it directly.
ReqReturn(p) ==
    /\ pc[p] = "rq_ret"
    /\ call[p] = "doRequest"
    /\ pc' = [pc EXCEPT ![p] = "idle"]
    /\ ret' = [ret EXCEPT ![p] = rqOut[p]]
    /\ UNCHANGED <<now, limiterVars, call, ctxDone, selVars, takeErr, reqVars, lkVars,
                   exVars, blocked, ctxAtCall, sawToken, granted, reqHist, pureVars, logger,
                   respVars>>

----------------------------------------------------------------------------
(* Requests, results and response bodies.                                  *)

IDDomain == 1..MaxID

SeqsUpTo(S, n) == UNION {[1..k -> S] : k \in 0..n}

Range(f) == {f[i] : i \in DOMAIN f}

Distinct(f) == \A i, j \in DOMAIN f : i # j => f[i] # f[j]

\* Identifier lists given to Lookup (repetitions allowed).
IDLists == SeqsUpTo(IDDomain, MaxIDs)

\* Identifier lists given to executeLookupIDs: any ids, each once, in any order.
DistinctIDLists == {ids \in SeqsUpTo(IDDomain, MaxID) : Distinct(ids)}

\* ContentResult: the trackId is the only field the engine reads.
ContentResults == [TrackID : IDDomain]

\* Result lists of a response: every track at most once, in any order.
ResultLists == {r \in SeqsUpTo(ContentResults, MaxID) : Distinct(r)}

\* A 200 body: JSON that decodes to a result list, or something that does not.
ServerBodies ==
    {[valid |-> FALSE, Results |-> <<>>]}
    \cup {[valid |-> TRUE, Results |-> r] : r \in ResultLists}

\* LookupRequest: its selector lists.
Selectors == {"IDs", "AMGArtistIDs", "AMGAlbumIDs", "AMGVideoIDs", "UPCs", "ISBNs", "BundleIDs"}

\* LookupRequest with all selector lists empty.
EmptyRequest ==
    [IDs |-> <<>>, AMGArtistIDs |-> <<>>, AMGAlbumIDs |-> <<>>, AMGVideoIDs |-> <<>>,
     UPCs |-> <<>>, ISBNs |-> <<>>, BundleIDs |-> <<>>, Entity |-> "", Country |-> "",
     Sort |-> "", Limit |-> 0]

\* The requests given to Lookup directly: by ids, by one bundle id, or empty.
LookupRequests ==
    {[EmptyRequest EXCEPT !.IDs = ids] : ids \in IDLists}
    \cup {[EmptyRequest EXCEPT !.BundleIDs = <<"com.example.app">>]}

\* *ContentResponse: nil, or a pointer to the decoded response.
NilResponse == [nil |-> TRUE, Results |-> <<>>]

Response(r) == [nil |-> FALSE, Results |-> r]

\* error values of Lookup: nil, *NotFoundError, or a plain error of some kind.
NoError == [kind |-> "nil", MissingIDs |-> <<>>]

NotFoundError(ids) == [kind |-> "not_found", MissingIDs |-> ids]

PlainError(k) == [kind |-> k, MissingIDs |-> <<>>]

----------------------------------------------------------------------------
(* Client.Lookup                                                           *)

\* Mutant: the check of selectorSet is missing.
SelectorSetUnchecked(r) == TRUE

\* Lookup, lines 19-52: some selector list is non-empty.
SelectorSet(r) ==
    \/ Len(r.IDs) > 0
    \/ Len(r.AMGArtistIDs) > 0
    \/ Len(r.AMGAlbumIDs) > 0
    \/ Len(r.AMGVideoIDs) > 0
    \/ Len(r.UPCs) > 0
    \/ Len(r.ISBNs) > 0
    \/ Len(r.BundleIDs) > 0

\* Lookup, lines 86-89: the set of trackIds among the results.
RECURSIVE FoundIDs(_)
FoundIDs(items) ==
    IF items = <<>> THEN {}
    ELSE FoundIDs(SubSeq(items, 1, Len(items) - 1)) \cup {items[Len(items)].TrackID}

\* Lookup, line 93: the requested id is not among the found ones.
IsMissing(id, found) == id \notin found

\* Lookup, lines 91-96: the requested ids that were not found, in request order.
RECURSIVE MissingIDs(_, _)
MissingIDs(ids, found) ==
    IF ids = <<>> THEN <<>>
    ELSE LET rest == MissingIDs(SubSeq(ids, 1, Len(ids) - 1), found)
             id == ids[Len(ids)]
         IN  IF IsMissing(id, found) THEN Append(rest, id) ELSE rest

\* Mutant: the response is dropped when ids are missing.
ReconcileDropsResults(r, items) ==
    IF Len(r.IDs) = 0 THEN [res |-> Response(items), err |-> NoError]
    ELSE LET missing == MissingIDs(r.IDs, FoundIDs(items))
         IN  IF Len(missing) > 0
             THEN [res |-> NilResponse, err |-> NotFoundError(missing)]
             ELSE [res |-> Response(items), err |-> NoError]

\* Mutant: a response without results is reported as not found.
ReconcileEmptyNotFound(r, items) ==
    IF items = <<>> THEN [res |-> Response(items), err |-> NotFoundError(r.IDs)]
    ELSE IF Len(r.IDs) = 0 THEN [res |-> Response(items), err |-> NoError]
    ELSE LET missing == MissingIDs(r.IDs, FoundIDs(items))
         IN  IF Len(missing) > 0
             THEN [res |-> Response(items), err |-> NotFoundError(missing)]
             ELSE [res |-> Response(items), err |-> NoError]

\* Lookup, lines 82-102: what Lookup returns for a decoded response.
Reconcile(r, items) ==
    IF Len(r.IDs) = 0 THEN [res |-> Response(items), err |-> NoError]
    ELSE LET missing == MissingIDs(r.IDs, FoundIDs(items))
         IN  IF Len(missing) > 0
             THEN [res |-> Response(items), err |-> NotFoundError(missing)]
             ELSE [res |-> Response(items), err |-> NoError]

\* Lookup, lines 67-102: Lookup's return values given what doRequest returned.
LookupResult(r, out, b) ==
    IF out # "ok" THEN [res |-> NilResponse, err |-> PlainError(out)]
    ELSE IF ~b.valid THEN [res |-> NilResponse, err |-> PlainError("decode")]
    ELSE Reconcile(r, b.Results)

\* Lookup is entered with request r, lines 18-67.
EnterLookup(p, r) ==
    /\ req' = [req EXCEPT ![p] = r]
    /\ dispatched' = [dispatched EXCEPT ![p] = IF pc[p] = "idle" THEN 1 ELSE @ + 1]
    /\ lkRes' = [lkRes EXCEPT ![p] = NilResponse]
    /\ IF SelectorSet(r)
       THEN /\ EnterDoRequest(p)
            /\ lkErr' = [lkErr EXCEPT ![p] = NoError]
       ELSE /\ pc' = [pc EXCEPT ![p] = "lk_ret"]
            /\ lkErr' = [lkErr EXCEPT ![p] = PlainError("no_selector")]
            /\ UNCHANGED <<reqVars, reqHist, respVars>>

\* A caller invokes Lookup directly.
CallLookup(p, r) ==
    /\ call[p] = "none"
    /\ BeginOp(p, "Lookup")
    /\ EnterLookup(p, r)
    /\ UNCHANGED <<now, limiterVars, ctxDone, selVars, takeErr, exVars, granted, pureVars, logger>>

\* The operations in which Lookup runs: Lookup itself and the helpers of
\* executeLookup that call it.
LookupCallers ==
    {"Lookup", "executeLookupIDs", "executeLookupAppStoreURLs",
     "executeLookupInt64Field", "executeLookupStringField"}

\* Lookup, lines 67-102: doRequest has returned.
LookupAfterRequest(p) ==
    /\ pc[p] = "rq_ret"
    /\ call[p] \in LookupCallers
    /\ LET out == LookupResult(req[p], rqOut[p], body[p])
       IN  /\ lkRes' = [lkRes EXCEPT ![p] = out.res]
           /\ lkErr' = [lkErr EXCEPT ![p] = out.err]
    /\ pc' = [pc EXCEPT ![p] = "lk_ret"]
    /\ UNCHANGED <<now, limiterVars, call, ctxDone, selVars, takeErr, reqVars, req,
                   dispatched, exVars, topVars, granted, reqHist, pureVars, logger, respVars>>

\* Lookup returns to a caller that invoked it directly.
LookupReturn(p) ==
    /\ pc[p] = "lk_ret"
    /\ call[p] = "Lookup"
    /\ pc' = [pc EXCEPT ![p] = "idle"]
    /\ ret' = [ret EXCEPT ![p] = IF lkErr[p].kind = "nil" THEN "ok" ELSE lkErr[p].kind]
    /\ UNCHANGED <<now, limiterVars, call, ctxDone, selVars, takeErr, reqVars, lkVars,
                   exVars, blocked, ctxAtCall, sawToken, granted, reqHist, pureVars, logger, respVars>>

----------------------------------------------------------------------------
(* common.ChunkInt64 and executeLookupIDs                                  *)

\* Mutant: the loop stops before a last, shorter batch.
RECURSIVE ChunkFromFullOnly(_, _, _)
ChunkFromFullOnly(ids, i, batchSize) ==
    IF i + batchSize > Len(ids) THEN <<>>
    ELSE <<SubSeq(ids, i + 1, i + batchSize)>>
         \o ChunkFromFullOnly(ids, i + batchSize, batchSize)

\* ChunkInt64, lines 9-12: the batches starting at offset i.
RECURSIVE ChunkFrom(_, _, _)
ChunkFrom(ids, i, batchSize) ==
    IF i >= Len(ids) THEN <<>>
    ELSE <<SubSeq(ids, i + 1, Min(i + batchSize, Len(ids)))>>
         \o ChunkFrom(ids, i + batchSize, batchSize)

\* ChunkInt64
ChunkInt64(ids, batchSize) == ChunkFrom(ids, 0, batchSize)

\* Mutant: the values are not split.
ChunkStringsWhole(values, batchSize) == IF values = <<>> THEN <<>> ELSE <<values>>

\* ChunkStrings: the same loop over strings.
ChunkStrings(values, batchSize) == ChunkFrom(values, 0, batchSize)

\* types.Int64 limit attribute: null, or a value.
NullLimit == [null |-> TRUE, value |-> 0]

LimitValues == {NullLimit, [null |-> FALSE, value |-> 1]}

\* Mutant: the limit is aligned with the batch whatever autoAlign says.
lookupLimitForBatchAligned(limit, batchSize, autoAlign) ==
    IF ~limit.null THEN limit.value ELSE batchSize

\* lookupLimitForBatch
lookupLimitForBatch(limit, batchSize, autoAlign) ==
    IF ~limit.null THEN limit.value
    ELSE IF autoAlign THEN batchSize
    ELSE 0

\* types.List selector attribute: null, or a list of elements.
NullList == [null |-> TRUE, elems |-> <<>>]

ListValue(l) == [null |-> FALSE, elems |-> l]

\* List.ElementsAs: the elements of a list attribute.
ElementsAs(l) == l.elems

\* ContentDataSourceModel: the selector attributes, country and limit, all null.
NullModel ==
    [AppStoreURLs |-> NullList, IDs |-> NullList, AMGArtistIDs |-> NullList,
     AMGAlbumIDs |-> NullList, AMGVideoIDs |-> NullList, UPCs |-> NullList,
     ISBNs |-> NullList, BundleIDs |-> NullList, Entity |-> "", Country |-> "",
     Sort |-> "", Limit |-> NullLimit]

\* The data models given to executeLookupIDs.
IDsModels ==
    {[NullModel EXCEPT !.IDs = ListValue(ids), !.Limit = l] :
        ids \in DistinctIDLists, l \in LimitValues}

\* buildLookupRequest: the shared fields of the data model, no selector.
buildLookupRequest(d) ==
    [EmptyRequest EXCEPT !.Entity = d.Entity, !.Country = d.Country, !.Sort = d.Sort]

NoDiags == [kind |-> "none", ids |-> <<>>]

\* No field helper is running.
NoHelper == [setter |-> "none", autoAlign |-> FALSE]

\* executeLookupIDs, lines 214-216: the request for one batch.
IDsBatchRequest(d, batch) ==
    [buildLookupRequest(d) EXCEPT
        !.IDs = batch,
        !.Limit = lookupLimitForBatch(d.Limit, Len(batch), TRUE)]

\* executeLookupIDs, lines 233-238: the return values after the last batch.
IDsReturn(res, missing) ==
    IF Len(missing) > 0
    THEN [results |-> <<>>, diags |-> [kind |-> "Resources Not Found", ids |-> missing]]
    ELSE [results |-> res, diags |-> NoDiags]

\* executeLookupIDs, lines 227-228: a batch failed, return nil and the error.
IDsFailure == [results |-> <<>>, diags |-> [kind |-> "API Request Failed", ids |-> <<>>]]

\* executeLookupIDs returns out to its caller.
IDsLeave(p, out) ==
    /\ outResults' = [outResults EXCEPT ![p] = out.results]
    /\ outDiags' = [outDiags EXCEPT ![p] = out.diags]
    /\ ret' = [ret EXCEPT ![p] = IF out.diags.kind = "none" THEN "ok" ELSE out.diags.kind]
    /\ pc' = [pc EXCEPT ![p] = "idle"]

\* executeLookupIDs, lines 200-218, for a list with at least one batch.
CallExecuteLookupIDs(p, d) ==
    /\ call[p] = "none"
    /\ ChunkInt64(ElementsAs(d.IDs), MaxLookupBatchSize) # <<>>
    /\ BeginOp(p, "executeLookupIDs")
    /\ data' = [data EXCEPT ![p] = d]
    /\ batches' = [batches EXCEPT ![p] = ChunkInt64(ElementsAs(d.IDs), MaxLookupBatchSize)]
    /\ bi' = [bi EXCEPT ![p] = 1]
    /\ results' = [results EXCEPT ![p] = <<>>]
    /\ allMissingIDs' = [allMissingIDs EXCEPT ![p] = <<>>]
    /\ outResults' = [outResults EXCEPT ![p] = <<>>]
    /\ outDiags' = [outDiags EXCEPT ![p] = NoDiags]
    /\ EnterLookup(p, IDsBatchRequest(d, ChunkInt64(ElementsAs(d.IDs), MaxLookupBatchSize)[1]))
    /\ UNCHANGED <<now, limiterVars, ctxDone, selVars, takeErr, allMissingURLs, helper,
                   granted, pureVars, logger>>

\* executeLookupIDs, lines 200-213 and 233-238, for a list with no batch.
CallExecuteLookupIDsEmpty(p, d) ==
    /\ call[p] = "none"
    /\ ChunkInt64(ElementsAs(d.IDs), MaxLookupBatchSize) = <<>>
    /\ pc[p] = "idle"
    /\ call' = [call EXCEPT ![p] = "executeLookupIDs"]
    /\ blocked' = [blocked EXCEPT ![p] = FALSE]
    /\ ctxAtCall' = [ctxAtCall EXCEPT ![p] = ctxDone[p]]
    /\ sawToken' = [sawToken EXCEPT ![p] = FALSE]
    /\ data' = [data EXCEPT ![p] = d]
    /\ batches' = [batches EXCEPT ![p] = <<>>]
    /\ bi' = [bi EXCEPT ![p] = 0]
    /\ results' = [results EXCEPT ![p] = <<>>]
    /\ allMissingIDs' = [allMissingIDs EXCEPT ![p] = <<>>]
    /\ IDsLeave(p, IDsReturn(<<>>, <<>>))
    /\ UNCHANGED <<now, limiterVars, ctxDone, selVars, takeErr, reqVars, lkVars,
                   allMissingURLs, helper, granted, reqHist, pureVars, logger, respVars>>

\* Mutant: a NotFoundError ends the loop like any other error.
IDsAfterLookupStops(p) ==
    /\ pc[p] = "lk_ret"
    /\ call[p] = "executeLookupIDs"
    /\ LET err == lkErr[p]
           failed == err.kind # "nil"
           newResults == IF failed \/ lkRes[p].nil
                         THEN results[p]
                         ELSE results[p] \o lkRes[p].Results
       IN  /\ results' = [results EXCEPT ![p] = newResults]
           /\ UNCHANGED allMissingIDs
           /\ IF failed
              THEN /\ IDsLeave(p, IDsFailure)
                   /\ UNCHANGED <<bi, reqVars, lkVars, reqHist, respVars>>
              ELSE IF bi[p] < Len(batches[p])
              THEN /\ bi' = [bi EXCEPT ![p] = bi[p] + 1]
                   /\ EnterLookup(p, IDsBatchRequest(data[p], batches[p][bi[p] + 1]))
                   /\ UNCHANGED <<outResults, outDiags, ret>>
              ELSE /\ IDsLeave(p, IDsReturn(newResults, allMissingIDs[p]))
                   /\ UNCHANGED <<bi, reqVars, lkVars, reqHist, respVars>>
    /\ UNCHANGED <<now, limiterVars, call, ctxDone, selVars, takeErr, data, batches,
                   allMissingURLs, helper, blocked, ctxAtCall, sawToken, granted, pureVars, logger>>

\* executeLookupIDs, lines 218-231: Lookup has returned for batch bi; the
\* loop goes on to the next batch, or the function returns (lines 227-228,
\* 233-238).
IDsAfterLookup(p) ==
    /\ pc[p] = "lk_ret"
    /\ call[p] = "executeLookupIDs"
    /\ LET err == lkErr[p]
           failed == err.kind \notin {"nil", "not_found"}
           newMissing == IF err.kind = "not_found"
                         THEN allMissingIDs[p] \o err.MissingIDs
                         ELSE allMissingIDs[p]
           newResults == IF failed \/ lkRes[p].nil
                         THEN results[p]
                         ELSE results[p] \o lkRes[p].Results
       IN  /\ results' = [results EXCEPT ![p] = newResults]
           /\ allMissingIDs' = [allMissingIDs EXCEPT ![p] = newMissing]
           /\ IF failed
              THEN /\ IDsLeave(p, IDsFailure)
                   /\ UNCHANGED <<bi, reqVars, lkVars, reqHist, respVars>>
              ELSE IF bi[p] < Len(batches[p])
              THEN /\ bi' = [bi EXCEPT ![p] = bi[p] + 1]
                   /\ EnterLookup(p, IDsBatchRequest(data[p], batches[p][bi[p] + 1]))
                   /\ UNCHANGED <<outResults, outDiags, ret>>
              ELSE /\ IDsLeave(p, IDsReturn(newResults, newMissing))
                   /\ UNCHANGED <<bi, reqVars, lkVars, reqHist, respVars>>
    /\ UNCHANGED <<now, limiterVars, call, ctxDone, selVars, takeErr, data, batches,
                   allMissingURLs, helper, blocked, ctxAtCall, sawToken, granted, pureVars, logger>>

----------------------------------------------------------------------------
(* executeLookupInt64Field and executeLookupStringField                    *)

\* The helper's loop body, lines 263-265 and 299-301: the base request, the
\* setter applied to the batch, and the limit.
FieldBatchRequest(d, h, batch) ==
    [buildLookupRequest(d) EXCEPT
        ![h.setter] = batch,
        !.Limit = lookupLimitForBatch(d.Limit, Len(batch), h.autoAlign)]

\* A helper of executeLookup returns at once, no batch having been looked up.
ReturnAtOnce(p, op, d, out) ==
    /\ call[p] = "none"
    /\ pc[p] = "idle"
    /\ call' = [call EXCEPT ![p] = op]
    /\ blocked' = [blocked EXCEPT ![p] = FALSE]
    /\ ctxAtCall' = [ctxAtCall EXCEPT ![p] = ctxDone[p]]
    /\ sawToken' = [sawToken EXCEPT ![p] = FALSE]
    /\ data' = [data EXCEPT ![p] = d]
    /\ batches' = [batches EXCEPT ![p] = <<>>]
    /\ bi' = [bi EXCEPT ![p] = 0]
    /\ results' = [results EXCEPT ![p] = <<>>]
    /\ IDsLeave(p, out)
    /\ UNCHANGED <<now, limiterVars, ctxDone, selVars, takeErr, reqVars, lkVars,
                   allMissingIDs, allMissingURLs, helper, granted, reqHist, pureVars, logger,
                   respVars>>

\* A helper of executeLookup enters its loop over the batches bs and calls
\* Lookup with the request r of the first one.
EnterBatches(p, op, d, h, bs, r) ==
    /\ call[p] = "none"
    /\ BeginOp(p, op)
    /\ data' = [data EXCEPT ![p] = d]
    /\ helper' = [helper EXCEPT ![p] = h]
    /\ batches' = [batches EXCEPT ![p] = bs]
    /\ bi' = [bi EXCEPT ![p] = 1]
    /\ results' = [results EXCEPT ![p] = <<>>]
    /\ allMissingURLs' = [allMissingURLs EXCEPT ![p] = <<>>]
    /\ outResults' = [outResults EXCEPT ![p] = <<>>]
    /\ outDiags' = [outDiags EXCEPT ![p] = NoDiags]
    /\ EnterLookup(p, r)
    /\ UNCHANGED <<now, limiterVars, ctxDone, selVars, takeErr, allMissingIDs, granted,
                   pureVars, logger>>

\* executeLookupInt64Field, lines 243-267, for the list attribute named field.
CallExecuteLookupInt64Field(p, d, field, autoAlign) ==
    LET h == [setter |-> field, autoAlign |-> autoAlign]
        bs == ChunkInt64(ElementsAs(d[field]), MaxLookupBatchSize)
    IN  IF bs = <<>>
        THEN ReturnAtOnce(p, "executeLookupInt64Field", d,
                          [results |-> <<>>, diags |-> NoDiags])
        ELSE EnterBatches(p, "executeLookupInt64Field", d, h, bs,
                          FieldBatchRequest(d, h, bs[1]))

\* executeLookupStringField, lines 280-303, for the list attribute named field.
CallExecuteLookupStringField(p, d, field) ==
    LET h == [setter |-> field, autoAlign |-> FALSE]
        bs == ChunkStrings(ElementsAs(d[field]), MaxLookupBatchSize)
    IN  IF bs = <<>>
        THEN ReturnAtOnce(p, "executeLookupStringField", d,
                          [results |-> <<>>, diags |-> NoDiags])
        ELSE EnterBatches(p, "executeLookupStringField", d, h, bs,
                          FieldBatchRequest(d, h, bs[1]))

\* Mutant: the results of a batch are put in front of the accumulator.
FieldAfterLookupPrepends(p, op) ==
    /\ pc[p] = "lk_ret"
    /\ call[p] = op
    /\ IF lkErr[p].kind # "nil"
       THEN /\ IDsLeave(p, IDsFailure)
            /\ UNCHANGED <<bi, results, reqVars, lkVars, reqHist, respVars>>
       ELSE /\ results' = [results EXCEPT ![p] = lkRes[p].Results \o results[p]]
            /\ IF bi[p] < Len(batches[p])
               THEN /\ bi' = [bi EXCEPT ![p] = bi[p] + 1]
                    /\ EnterLookup(p, FieldBatchRequest(data[p], helper[p],
                                                        batches[p][bi[p] + 1]))
                    /\ UNCHANGED <<outResults, outDiags, ret>>
               ELSE /\ IDsLeave(p, [results |-> lkRes[p].Results \o results[p],
                                    diags |-> NoDiags])
                    /\ UNCHANGED <<bi, reqVars, lkVars, reqHist, respVars>>
    /\ UNCHANGED <<now, limiterVars, call, ctxDone, selVars, takeErr, data, batches,
                   allMissingIDs, allMissingURLs, helper, blocked, ctxAtCall, sawToken,
                   granted, pureVars, logger>>

\* Lines 267-275 and 303-311: Lookup has returned for batch bi.  Any error
\* ends the helper; otherwise the results are appended and the loop goes on.
FieldAfterLookup(p, op) ==
    /\ pc[p] = "lk_ret"
    /\ call[p] = op
    /\ IF lkErr[p].kind # "nil"
       THEN /\ IDsLeave(p, IDsFailure)
            /\ UNCHANGED <<bi, results, reqVars, lkVars, reqHist, respVars>>
       ELSE /\ results' = [results EXCEPT ![p] = results[p] \o lkRes[p].Results]
            /\ IF bi[p] < Len(batches[p])
               THEN /\ bi' = [bi EXCEPT ![p] = bi[p] + 1]
                    /\ EnterLookup(p, FieldBatchRequest(data[p], helper[p],
                                                        batches[p][bi[p] + 1]))
                    /\ UNCHANGED <<outResults, outDiags, ret>>
               ELSE /\ IDsLeave(p, [results |-> results[p] \o lkRes[p].Results,
                                    diags |-> NoDiags])
                    /\ UNCHANGED <<bi, reqVars, lkVars, reqHist, respVars>>
    /\ UNCHANGED <<now, limiterVars, call, ctxDone, selVars, takeErr, data, batches,
                   allMissingIDs, allMissingURLs, helper, blocked, ctxAtCall, sawToken,
                   granted, pureVars, logger>>

Int64FieldAfterLookup(p) == FieldAfterLookup(p, "executeLookupInt64Field")

StringFieldAfterLookup(p) == FieldAfterLookup(p, "executeLookupStringField")

----------------------------------------------------------------------------
(* executeLookupAppStoreURLs                                               *)

\* Country stores of the App Store URLs.
Countries == {"us", "gb"}

\* An App Store URL https://apps.apple.com/<country>/app/x/id<id>, as the
\* two parts appStoreURLRegex captures.
URLDomain == [country : Countries, id : 1..MaxIDs]

\* App Store URL lists: the i-th URL is the page of track i in some country.
URLLists == {u \in SeqsUpTo(URLDomain, MaxIDs) : \A i \in DOMAIN u : u[i].id = i}

\* parseAppStoreURL
parseAppStoreURL(urlStr) == [trackID |-> urlStr.id, countryCode |-> urlStr.country]

\* Mutant: the countries of the URLs are not compared.
RECURSIVE ScanURLsUnchecked(_, _, _, _)
ScanURLsUnchecked(urls, i, countryCode, trackIDs) ==
    IF i > Len(urls)
    THEN [ok |-> TRUE, countryCode |-> countryCode, trackIDs |-> trackIDs]
    ELSE LET u == parseAppStoreURL(urls[i])
         IN  ScanURLsUnchecked(urls, i + 1,
                      IF countryCode = "" THEN u.countryCode ELSE countryCode,
                      Append(trackIDs, u.trackID))

\* executeLookupAppStoreURLs, lines 144-156: the loop over the URLs from the
\* i-th on; it stops at the first URL of another country than the first one's.
RECURSIVE ScanURLs(_, _, _, _)
ScanURLs(urls, i, countryCode, trackIDs) ==
    IF i > Len(urls)
    THEN [ok |-> TRUE, countryCode |-> countryCode, trackIDs |-> trackIDs]
    ELSE LET u == parseAppStoreURL(urls[i])
         IN  IF countryCode # "" /\ countryCode # u.countryCode
             THEN [ok |-> FALSE, countryCode |-> countryCode, trackIDs |-> trackIDs]
             ELSE ScanURLs(urls, i + 1,
                      IF countryCode = "" THEN u.countryCode ELSE countryCode,
                      Append(trackIDs, u.trackID))

\* Line 175, strings.Contains(url, fmt.Sprintf("id%d", id)): "id" occurs in
\* the URL's text only before its track id, so the test holds when the
\* decimal digits of id begin those of the track id.
RECURSIVE ContainsID(_, _)
ContainsID(trackID, id) ==
    IF trackID = id THEN TRUE
    ELSE IF trackID < 10 THEN FALSE
    ELSE ContainsID(trackID \div 10, id)

\* Lines 174-178: the URLs that contain the missing id, in list order.
RECURSIVE URLsContaining(_, _)
URLsContaining(urls, id) ==
    IF urls = <<>> THEN <<>>
    ELSE LET rest == URLsContaining(SubSeq(urls, 1, Len(urls) - 1), id)
             url == urls[Len(urls)]
         IN  IF ContainsID(url.id, id) THEN Append(rest, url) ELSE rest

\* Lines 173-179: the URLs appended to allMissingURLs for the missing ids.
RECURSIVE MissingURLs(_, _)
MissingURLs(urls, missingIDs) ==
    IF missingIDs = <<>> THEN <<>>
    ELSE URLsContaining(urls, Head(missingIDs)) \o MissingURLs(urls, Tail(missingIDs))

\* Lines 152-153: a URL of another country store.
URLsInconsistent ==
    [results |-> <<>>, diags |-> [kind |-> "Inconsistent Countries", ids |-> <<>>]]

\* Lines 191-196: the return values after the last batch.
URLsReturn(res, missing) ==
    IF Len(missing) > 0
    THEN [results |-> <<>>, diags |-> [kind |-> "Some URLs not found", ids |-> missing]]
    ELSE [results |-> res, diags |-> NoDiags]

\* executeLookupAppStoreURLs, lines 136-170: the URLs are parsed and their
\* countries compared, then Lookup is called for the first batch.
CallExecuteLookupAppStoreURLs(p, d) ==
    LET scan == ScanURLs(ElementsAs(d.AppStoreURLs), 1, "", <<>>)
        withCountry == [d EXCEPT !.Country = scan.countryCode]
        bs == ChunkInt64(scan.trackIDs, MaxLookupBatchSize)
    IN  IF ~scan.ok
        THEN ReturnAtOnce(p, "executeLookupAppStoreURLs", d, URLsInconsistent)
        ELSE IF bs = <<>>
        THEN ReturnAtOnce(p, "executeLookupAppStoreURLs", withCountry,
                          URLsReturn(<<>>, <<>>))
        ELSE EnterBatches(p, "executeLookupAppStoreURLs", withCountry, NoHelper, bs,
                          IDsBatchRequest(withCountry, bs[1]))

\* Mutant: a batch that failed is skipped and the loop goes on.
URLsAfterLookupSkips(p) ==
    /\ pc[p] = "lk_ret"
    /\ call[p] = "executeLookupAppStoreURLs"
    /\ LET err == lkErr[p]
           newMissing == IF err.kind = "not_found"
                         THEN allMissingURLs[p]
                              \o MissingURLs(ElementsAs(data[p].AppStoreURLs),
                                             err.MissingIDs)
                         ELSE allMissingURLs[p]
           newResults == IF lkRes[p].nil
                         THEN results[p]
                         ELSE results[p] \o lkRes[p].Results
       IN  /\ results' = [results EXCEPT ![p] = newResults]
           /\ allMissingURLs' = [allMissingURLs EXCEPT ![p] = newMissing]
           /\ IF bi[p] < Len(batches[p])
              THEN /\ bi' = [bi EXCEPT ![p] = bi[p] + 1]
                   /\ EnterLookup(p, IDsBatchRequest(data[p], batches[p][bi[p] + 1]))
                   /\ UNCHANGED <<outResults, outDiags, ret>>
              ELSE /\ IDsLeave(p, URLsReturn(newResults, newMissing))
                   /\ UNCHANGED <<bi, reqVars, lkVars, reqHist, respVars>>
    /\ UNCHANGED <<now, limiterVars, call, ctxDone, selVars, takeErr, data, batches,
                   allMissingIDs, helper, blocked, ctxAtCall, sawToken, granted, pureVars, logger>>

\* executeLookupAppStoreURLs, lines 170-196: Lookup has returned for batch bi.
URLsAfterLookup(p) ==
    /\ pc[p] = "lk_ret"
    /\ call[p] = "executeLookupAppStoreURLs"
    /\ LET err == lkErr[p]
           failed == err.kind \notin {"nil", "not_found"}
           newMissing == IF err.kind = "not_found"
                         THEN allMissingURLs[p]
                              \o MissingURLs(ElementsAs(data[p].AppStoreURLs),
                                             err.MissingIDs)
                         ELSE allMissingURLs[p]
           newResults == IF failed \/ lkRes[p].nil
                         THEN results[p]
                         ELSE results[p] \o lkRes[p].Results
       IN  /\ results' = [results EXCEPT ![p] = newResults]
           /\ allMissingURLs' = [allMissingURLs EXCEPT ![p] = newMissing]
           /\ IF failed
              THEN /\ IDsLeave(p, IDsFailure)
                   /\ UNCHANGED <<bi, reqVars, lkVars, reqHist, respVars>>
              ELSE IF bi[p] < Len(batches[p])
              THEN /\ bi' = [bi EXCEPT ![p] = bi[p] + 1]
                   /\ EnterLookup(p, IDsBatchRequest(data[p], batches[p][bi[p] + 1]))
                   /\ UNCHANGED <<outResults, outDiags, ret>>
              ELSE /\ IDsLeave(p, URLsReturn(newResults, newMissing))
                   /\ UNCHANGED <<bi, reqVars, lkVars, reqHist, respVars>>
    /\ UNCHANGED <<now, limiterVars, call, ctxDone, selVars, takeErr, data, batches,
                   allMissingIDs, helper, blocked, ctxAtCall, sawToken, granted, pureVars, logger>>

----------------------------------------------------------------------------
(* executeLookup                                                           *)

\* The selector attributes that hold identifiers of other catalogues (int64)
\* and codes (strings); the schema requires at least one element in them.
Int64Fields == {"AMGArtistIDs", "AMGAlbumIDs", "AMGVideoIDs"}

StringFields == {"UPCs", "ISBNs", "BundleIDs"}

\* Their values: MaxID or fewer elements.
Int64FieldLists == {[i \in 1..k |-> i] : k \in 1..MaxID}

StringFieldLists == {[i \in 1..k |-> "a"] : k \in 1..MaxID}

\* The data models given to executeLookup: the schema (ExactlyOneOf) lets
\* one selector attribute be set; a model with none is answered "No Selector".
DataModels ==
    IDsModels
    \cup {[NullModel EXCEPT !.AppStoreURLs = ListValue(u), !.Limit = l] :
            u \in URLLists, l \in LimitValues}
    \cup {[NullModel EXCEPT ![f] = ListValue(v), !.Limit = l] :
            f \in Int64Fields, v \in Int64FieldLists, l \in LimitValues}
    \cup {[NullModel EXCEPT ![f] = ListValue(v), !.Limit = l] :
            f \in StringFields, v \in StringFieldLists, l \in LimitValues}
    \cup {NullModel}

\* Lines 131-132: no selector attribute is set.
NoSelector == [results |-> <<>>, diags |-> [kind |-> "No Selector", ids |-> <<>>]]

\* executeLookup, lines 90-133: the first selector attribute that is not
\* null decides which helper runs.
CallExecuteLookup(p, d) ==
    /\ call[p] = "none"
    /\ IF ~d.AppStoreURLs.null THEN CallExecuteLookupAppStoreURLs(p, d)
       ELSE IF ~d.IDs.null
       THEN CallExecuteLookupIDs(p, d) \/ CallExecuteLookupIDsEmpty(p, d)
       ELSE IF ~d.AMGArtistIDs.null
       THEN CallExecuteLookupInt64Field(p, d, "AMGArtistIDs", FALSE)
       ELSE IF ~d.AMGAlbumIDs.null
       THEN CallExecuteLookupInt64Field(p, d, "AMGAlbumIDs", FALSE)
       ELSE IF ~d.AMGVideoIDs.null
       THEN CallExecuteLookupInt64Field(p, d, "AMGVideoIDs", FALSE)
       ELSE IF ~d.UPCs.null THEN CallExecuteLookupStringField(p, d, "UPCs")
       ELSE IF ~d.ISBNs.null THEN CallExecuteLookupStringField(p, d, "ISBNs")
       ELSE IF ~d.BundleIDs.null THEN CallExecuteLookupStringField(p, d, "BundleIDs")
       ELSE ReturnAtOnce(p, "executeLookup", d, NoSelector)

----------------------------------------------------------------------------
(* Environment: the caller's cancellation and the passage of time.         *)

\* cancel(): closes ctx.Done(); a caller parked in a select resumes with that case.
Cancel(p) ==
    /\ ~ctxDone[p]
    /\ ctxDone' = [ctxDone EXCEPT ![p] = TRUE]
    /\ woke' = [woke EXCEPT ![p] =
                  IF InSelect(p) /\ woke[p] = "park" THEN "ctx" ELSE woke[p]]
    /\ cancelledInSleep' = [cancelledInSleep EXCEPT ![p] =
                  cancelledInSleep[p] \/ (pc[p] = "req_select" /\ woke[p] = "park")]
    /\ UNCHANGED <<now, limiterVars, pc, call, deadline, takeErr, reqVars, lkVars,
                   exVars, topVars, granted, attempts, hist, logs, unclosed, pureVars,
                   logger, respVars>>

\* Time moves to t; timers that expire wake the callers parked on them.
TimePasses(t) ==
    /\ now' = t
    /\ woke' = [p \in Procs |->
                  IF InSelect(p) /\ woke[p] = "park" /\ deadline[p] <= t
                  THEN "timer" ELSE woke[p]]
    /\ UNCHANGED <<limiterVars, pc, call, ctxDone, deadline, takeErr, reqVars, lkVars,
                   exVars, topVars, granted, reqHist, pureVars, logger, respVars>>

\* One second passes.
Tick ==
    /\ now < MaxTime
    /\ TimePasses(now + 1)

\* Time passes until the timer of some parked caller expires.
AwaitTimer ==
    \E p \in Procs :
        /\ InSelect(p)
        /\ woke[p] = "park"
        /\ TimePasses(deadline[p])

----------------------------------------------------------------------------
\* Everything but the bucket's fill: no caller has called anything yet.
InitCallers ==
    /\ now = 0
    /\ lastRefillTime = 0
    /\ mu = NoProc
    /\ pc = [p \in Procs |-> "idle"]
    /\ call = [p \in Procs |-> "none"]
    /\ ctxDone = [p \in Procs |-> FALSE]
    /\ deadline = [p \in Procs |-> 0]
    /\ woke = [p \in Procs |-> "park"]
    /\ takeErr = [p \in Procs |-> "nil"]
    /\ retryCount = [p \in Procs |-> 0]
    /\ rqOut = [p \in Procs |-> "none"]
    /\ body = [p \in Procs |-> NoBody]
    /\ status = [p \in Procs |-> 0]
    /\ retryAfter = [p \in Procs |-> NoRetryAfter]
    /\ rqErr = [p \in Procs |-> NoRqError]
    /\ req = [p \in Procs |-> EmptyRequest]
    /\ lkRes = [p \in Procs |-> NilResponse]
    /\ lkErr = [p \in Procs |-> NoError]
    /\ dispatched = [p \in Procs |-> 0]
    /\ data = [p \in Procs |-> NullModel]
    /\ batches = [p \in Procs |-> <<>>]
    /\ bi = [p \in Procs |-> 0]
    /\ results = [p \in Procs |-> <<>>]
    /\ allMissingIDs = [p \in Procs |-> <<>>]
    /\ allMissingURLs = [p \in Procs |-> <<>>]
    /\ helper = [p \in Procs |-> NoHelper]
    /\ outResults = [p \in Procs |-> <<>>]
    /\ outDiags = [p \in Procs |-> NoDiags]
    /\ ret = [p \in Procs |-> "none"]
    /\ blocked = [p \in Procs |-> FALSE]
    /\ ctxAtCall = [p \in Procs |-> FALSE]
    /\ sawToken = [p \in Procs |-> FALSE]
    /\ attempts = [p \in Procs |-> 0]
    /\ hist = [p \in Procs |-> <<>>]
    /\ cancelledInSleep = [p \in Procs |-> FALSE]
    /\ logs = [p \in Procs |-> <<>>]
    /\ unclosed = [p \in Procs |-> 0]

\* No pure function is under examination.
NoResult == [returned |-> FALSE, value |-> <<>>]

NoPureCall ==
    /\ fn = "none"
    /\ args = <<>>
    /\ result = NoResult

\* The state after newTokenBucket / NewClient.
Init ==
    /\ InitCallers
    /\ NoPureCall
    /\ tokens = InitialTokens
    /\ granted = 0
    /\ logger = FALSE

\* Steps of take, by any caller.
TakeStep(p) ==
    \/ TakeLock(p)
    \/ TakeGrant(p)
    \/ TakeWait(p)
    \/ TakeCancelled(p)
    \/ TakeRetry(p)

\* Steps of doRequest (take included) against a server whose Retry-After
\* headers are among H.
ReqStep(p, H) ==
    \/ TakeStep(p)
    \/ ReqAfterTake(p)
    \/ ReqCtxDead(p)
    \/ ReqTransportError(p)
    \/ \E b \in ServerBodies : ReqOK(p, b)
    \/ \E sc \in ErrorStatuses : ReqStatusError(p, sc)
    \/ \E h \in H : Req429Exhausted(p, h)
    \/ \E h \in H : Req429Sleep(p, h)
    \/ \E h \in H : Req429NoRetryAfter(p, h)
    \/ ReqSleepCancelled(p)
    \/ ReqSleepDone(p)

\* Concurrent callers of take on one bucket.
NextLimiter ==
    \/ \E p \in Procs : CallTake(p)
    \/ \E p \in Procs : TakeStep(p)
    \/ \E p \in Procs : TakeReturn(p)
    \/ \E p \in Procs : Cancel(p)
    \/ Tick

SpecLimiter == Init /\ [][NextLimiter]_vars

\* The take calls made so far on a fresh bucket when none is cancelled:
\* those granted and those still on their way to a grant.
TakesStarted ==
    granted + Cardinality({p \in Procs : pc[p] \in {"take_lock", "take_crit", "take_select"}})

\* A caller invokes take, the callers making finitely many calls in all.
CallTakeFinite(p) ==
    /\ TakesStarted < RateLimitRequests + ExtraTakes
    /\ CallTake(p)

\* Concurrent callers of take whose contexts are never cancelled.
NextLimiterLive ==
    \/ \E p \in Procs : CallTakeFinite(p)
    \/ \E p \in Procs : TakeLock(p)
    \/ \E p \in Procs : TakeGrant(p)
    \/ \E p \in Procs : TakeWait(p)
    \/ \E p \in Procs : TakeRetry(p)
    \/ \E p \in Procs : TakeReturn(p)
    \/ Tick
    \/ AwaitTimer

\* The goroutine of every caller keeps running: a step of take that stays
\* possible is taken (weak fairness; Lock is granted when the mutex stays
\* free). Time advances, so every timer of time.After expires.
TakeProgress(p) ==
    TakeLock(p) \/ TakeGrant(p) \/ TakeWait(p) \/ TakeRetry(p) \/ TakeReturn(p)

FairLimiter ==
    /\ \A p \in Procs : WF_vars(TakeProgress(p))
    /\ WF_vars(AwaitTimer)

SpecLimiterLive == Init /\ [][NextLimiterLive]_vars /\ FairLimiter

----------------------------------------------------------------------------
(* Pure functions, examined on their own: the initial state draws the     *)
(* function and its arguments, the action applies it.                      *)

\* The function f returns v.
Return(f, v) ==
    /\ fn = f
    /\ ~result.returned
    /\ result' = [returned |-> TRUE, value |-> v]
    /\ UNCHANGED <<now, limiterVars, pc, call, ctxDone, selVars, takeErr, reqVars, lkVars,
                   exVars, topVars, granted, reqHist, fn, args, logger, respVars>>

\* The state before f is called with arguments among A (the client untouched).
InitPure(f, A) ==
    /\ InitCallers
    /\ tokens = InitialTokens
    /\ granted = 0
    /\ logger = FALSE
    /\ fn = f
    /\ args \in A
    /\ result = NoResult

\* Arguments of ChunkInt64 and of ChunkStrings.
ChunkInt64Args == [list : SeqsUpTo(IDDomain, MaxListLen), batchSize : 1..MaxBatch]

ChunkStringsArgs == [list : SeqsUpTo({"a", "b"}, MaxListLen), batchSize : 1..MaxBatch]

CallChunkInt64 == Return("ChunkInt64", ChunkInt64(args.list, args.batchSize))

CallChunkStrings == Return("ChunkStrings", ChunkStrings(args.list, args.batchSize))

InitChunk ==
    \/ InitPure("ChunkInt64", ChunkInt64Args)
    \/ InitPure("ChunkStrings", ChunkStringsArgs)

NextChunk ==
    \/ CallChunkInt64
    \/ CallChunkStrings

SpecChunk == InitChunk /\ [][NextChunk]_vars

----------------------------------------------------------------------------
(* The query builders of Lookup and Search.  Text is a sequence of         *)
(* characters; a string the builders only copy is one opaque character.    *)

Str(s) == IF s = "" THEN <<>> ELSE <<s>>

DigitChars == <<"0", "1", "2", "3", "4", "5", "6", "7", "8", "9">>

\* strconv.FormatInt(n, 10) and fmt.Sprintf("%d", n): the decimal digits of n.
RECURSIVE FormatNat(_)
FormatNat(n) ==
    IF n < 10 THEN <<DigitChars[n + 1]>>
    ELSE FormatNat(n \div 10) \o <<DigitChars[(n % 10) + 1]>>

FormatInt(n) == IF n < 0 THEN <<"-">> \o FormatNat(-n) ELSE FormatNat(n)

\* stringifyIDs
stringifyIDs(ids) == [i \in DOMAIN ids |-> FormatInt(ids[i])]

\* strings.Join(elems, ",")
RECURSIVE Join(_)
Join(elems) ==
    IF elems = <<>> THEN <<>>
    ELSE IF Len(elems) = 1 THEN elems[1]
    ELSE elems[1] \o <<",">> \o Join(Tail(elems))

\* url.Values{}
NoValues == [k \in {} |-> <<>>]

\* url.Values.Set
Set(query, key, value) ==
    [k \in DOMAIN query \cup {key} |-> IF k = key THEN value ELSE query[k]]

\* query.Set(key, value) when cond holds, else query as it is.
SetIf(cond, query, key, value) == IF cond THEN Set(query, key, value) ELSE query

\* addCommonParameters
addCommonParameters(query, entity, country, limit) ==
    LET q1 == SetIf(entity # "", query, "entity", Str(entity))
        q2 == SetIf(country # "", q1, "country", Str(country))
    IN  SetIf(limit > 0, q2, "limit", FormatInt(limit))

\* Mutant: the limit is passed on as requested.
LookupLimitUncapped(limit) == limit

\* Lookup, lines 54-57: limitToUse.
LookupLimit(limit) == IF limit > MaxLookupBatchSize THEN MaxLookupBatchSize ELSE limit

\* Lookup, lines 18-63: the query of a request that has a selector.
LookupQuery(r) ==
    LET strs(l) == [i \in DOMAIN l |-> Str(l[i])]
        q1 == SetIf(Len(r.IDs) > 0, NoValues, "id", Join(stringifyIDs(r.IDs)))
        q2 == SetIf(Len(r.AMGArtistIDs) > 0, q1, "amgArtistId",
                    Join(stringifyIDs(r.AMGArtistIDs)))
        q3 == SetIf(Len(r.AMGAlbumIDs) > 0, q2, "amgAlbumId",
                    Join(stringifyIDs(r.AMGAlbumIDs)))
        q4 == SetIf(Len(r.AMGVideoIDs) > 0, q3, "amgVideoId",
                    Join(stringifyIDs(r.AMGVideoIDs)))
        q5 == SetIf(Len(r.UPCs) > 0, q4, "upc", Join(strs(r.UPCs)))
        q6 == SetIf(Len(r.ISBNs) > 0, q5, "isbn", Join(strs(r.ISBNs)))
        q7 == SetIf(Len(r.BundleIDs) > 0, q6, "bundleId", Join(strs(r.BundleIDs)))
        q8 == addCommonParameters(q7, r.Entity, r.Country, LookupLimit(r.Limit))
    IN  SetIf(r.Sort # "", q8, "sort", Str(r.Sort))

\* *bool and *int64 fields of SearchRequest: nil, or a pointer to a value.
Nil == [nil |-> TRUE, value |-> 0]

Ptr(v) == [nil |-> FALSE, value |-> v]

\* Mutant: the version is sent whenever it is not zero.
VersionSentNonZero(version) == version # 0

\* Search, line 134.
VersionSent(version) == version > 0

\* Search, lines 118-149: the query.
SearchQuery(r) ==
    LET q1 == Set(NoValues, "term", Str(r.Term))
        q2 == IF r.Media # "" THEN Set(q1, "media", Str(r.Media))
              ELSE Set(q1, "media", Str("all"))
        q3 == addCommonParameters(q2, r.Entity, r.Country, r.Limit)
        q4 == SetIf(r.Attribute # "", q3, "attribute", Str(r.Attribute))
        q5 == SetIf(r.Lang # "", q4, "lang", Str(r.Lang))
        q6 == SetIf(VersionSent(r.Version), q5, "version", FormatInt(r.Version))
        q7 == IF r.Explicit.nil THEN q6
              ELSE IF r.Explicit.value THEN Set(q6, "explicit", Str("Yes"))
              ELSE Set(q6, "explicit", Str("No"))
        q8 == SetIf(~r.Offset.nil, q7, "offset", FormatInt(r.Offset.value))
    IN  SetIf(r.Callback # "", q8, "callback", Str(r.Callback))

\* Limits given to the builders: none, negative, below, at and above the cap.
QueryLimits == (-1)..(MaxLookupBatchSize + 2)

\* Requests given to Lookup's builder: one selector, any shared fields.
LookupQueryArgs ==
    {[r EXCEPT !.Entity = e, !.Country = c, !.Sort = st, !.Limit = l] :
        r \in LookupRequests \ {EmptyRequest}, e \in {"", "software"},
        c \in {"", "us"}, st \in {"", "recent"}, l \in QueryLimits}

\* Requests given to Search.
SearchQueryArgs ==
    [Term : {"", "xcode"}, Media : {"", "music"}, Entity : {"", "software"},
     Country : {"", "us"}, Attribute : {"", "titleTerm"}, Limit : QueryLimits,
     Lang : {"", "en_us"}, Version : {-1, 0, 1}, Explicit : {Nil, Ptr(TRUE), Ptr(FALSE)},
     Offset : {Nil, Ptr(0), Ptr(1)}, Callback : {"", "cb"}]

CallLookupQuery == Return("LookupQuery", LookupQuery(args))

CallSearchQuery == Return("SearchQuery", SearchQuery(args))

InitQuery ==
    \/ InitPure("LookupQuery", LookupQueryArgs)
    \/ InitPure("SearchQuery", SearchQueryArgs)

NextQuery ==
    \/ CallLookupQuery
    \/ CallSearchQuery

SpecQuery == InitQuery /\ [][NextQuery]_vars

----------------------------------------------------------------------------
(* unwrapJSONPBody.  A body is a sequence of characters.                    *)

\* The characters bytes.TrimSpace removes.
IsSpace(ch) == ch \in {" ", "\t"}

RECURSIVE TrimLeft(_)
TrimLeft(b) == IF b # <<>> /\ IsSpace(Head(b)) THEN TrimLeft(Tail(b)) ELSE b

RECURSIVE TrimRight(_)
TrimRight(b) ==
    IF b # <<>> /\ IsSpace(b[Len(b)]) THEN TrimRight(SubSeq(b, 1, Len(b) - 1)) ELSE b

\* bytes.TrimSpace
TrimSpace(b) == TrimRight(TrimLeft(b))

\* bytes.HasPrefix
HasPrefix(b, prefix) == Len(b) >= Len(prefix) /\ SubSeq(b, 1, Len(prefix)) = prefix

\* bytes.HasSuffix
HasSuffix(b, suffix) ==
    Len(b) >= Len(suffix) /\ SubSeq(b, Len(b) - Len(suffix) + 1, Len(b)) = suffix

\* Mutant: the trailing semicolon is left in place.
TrimSuffixMissing(b, suffix) == b

\* bytes.TrimSuffix
TrimSuffix(b, suffix) ==
    IF HasSuffix(b, suffix) THEN SubSeq(b, 1, Len(b) - Len(suffix)) ELSE b

\* unwrapJSONPBody: the payload and the error.
unwrapJSONPBody(b, callback) ==
    LET trimmed == TrimSuffix(TrimSpace(b), <<";">>)
        prefix == callback \o <<"(">>
        suffix == <<")">>
    IN  IF ~HasPrefix(trimmed, prefix) \/ ~HasSuffix(trimmed, suffix)
        THEN [payload |-> <<>>, err |-> "unexpected JSONP response format"]
        ELSE IF Len(prefix) > Len(trimmed) - Len(suffix)
        THEN [payload |-> <<>>, err |-> "panic: slice bounds out of range"]
        ELSE [payload |-> SubSeq(trimmed, Len(prefix) + 1, Len(trimmed) - Len(suffix)),
              err |-> "nil"]

\* The characters of bodies: of the callback name, of the envelope, a blank.
BodyChars == {"c", "(", ")", ";", " "}

\* Callback names: identifiers.
Callbacks == {<<"c">>, <<"c", "c">>}

\* Whitespace around a well-formed body.
Blanks == {<<>>, <<" ">>, <<"\t", " ">>}

\* Well-formed JSONP bodies of callback cb: cb(payload), with or without a
\* semicolon, with or without whitespace around.
Envelopes(cb) ==
    {lead \o cb \o <<"(">> \o payload \o <<")">> \o semi \o trail :
        lead \in Blanks, payload \in SeqsUpTo(BodyChars, MaxPayload),
        semi \in {<<>>, <<";">>}, trail \in Blanks}

\* Arguments of unwrapJSONPBody: well-formed bodies and arbitrary short ones.
JSONPArgs ==
    UNION {[body : Envelopes(cb) \cup SeqsUpTo(BodyChars, MaxBody), callback : {cb}] :
              cb \in Callbacks}

CallUnwrapJSONPBody ==
    Return("unwrapJSONPBody", unwrapJSONPBody(args.body, args.callback))

InitJSONP == InitPure("unwrapJSONPBody", JSONPArgs)

NextJSONP == CallUnwrapJSONPBody

SpecJSONP == InitJSONP /\ [][NextJSONP]_vars

----------------------------------------------------------------------------
(* executeLookupAppStoreURLs: the URLs reported for the missing ids.       *)

\* Track ids of which one's decimal digits begin another's.
PrefixTrackIDs == {1, 2, 12}

\* App Store URLs of those tracks in one country store, each at most once
\* in a list.
PrefixURLLists ==
    {u \in SeqsUpTo([country : {"us"}, id : PrefixTrackIDs], MaxIDs) : Distinct(u)}

\* The URLs given to executeLookupAppStoreURLs and the tracks the API finds.
MissingURLsArgs == [urls : PrefixURLLists, found : SUBSET PrefixTrackIDs]

\* executeLookupAppStoreURLs, lines 146-156 and 170-180, for URLs that make
\* one batch: the track ids parsed from the URLs are looked up, Lookup
\* reports those not among the found ones, and the URLs that contain
\* "id<missing id>" are appended to allMissingURLs.
MissingURLsOfBatch(urls, found) ==
    LET trackIDs == [i \in DOMAIN urls |-> parseAppStoreURL(urls[i]).trackID]
    IN  MissingURLs(urls, MissingIDs(trackIDs, found))

CallMissingURLsOfBatch ==
    Return("MissingURLsOfBatch", MissingURLsOfBatch(args.urls, args.found))

InitMissingURLs == InitPure("MissingURLsOfBatch", MissingURLsArgs)

NextMissingURLs == CallMissingURLsOfBatch

SpecMissingURLs == InitMissingURLs /\ [][NextMissingURLs]_vars

----------------------------------------------------------------------------
\* The client once it has sent RateLimitRequests requests at time 0, a
\* token taken for each: the bucket is empty.
InitDrained ==
    /\ InitCallers
    /\ NoPureCall
    /\ tokens = InitialTokens - RateLimitRequests * TokenUnit
    /\ granted = RateLimitRequests
    /\ logger = FALSE

\* The caller of the client operations.  It performs one operation; the
\* bucket states an operation may find are those of InitClient.
Caller == CHOOSE p \in Procs : TRUE

\* The bucket of a client that has served d requests at time 0.
InitClient ==
    \E d \in {0, RateLimitRequests} :
        /\ InitCallers
        /\ NoPureCall
        /\ tokens = InitialTokens - d * TokenUnit
        /\ granted = d
        /\ logger = FALSE

\* The same client after SetLogger.
InitLogged ==
    \E d \in {0, RateLimitRequests} :
        /\ InitCallers
        /\ NoPureCall
        /\ tokens = InitialTokens - d * TokenUnit
        /\ granted = d
        /\ logger = TRUE

\* One caller of take, no competitor, on a bucket that starts empty.
NextTake ==
    \/ CallTake(Caller)
    \/ TakeStep(Caller)
    \/ TakeReturn(Caller)
    \/ Cancel(Caller)
    \/ Tick

SpecTake == InitDrained /\ [][NextTake]_vars

\* Concurrent callers of take on the drained bucket.
SpecLimiterDrained == InitDrained /\ [][NextLimiter]_vars

\* One caller of doRequest.
NextRequest ==
    \/ CallDoRequest(Caller)
    \/ ReqStep(Caller, RetryAfterHeaders)
    \/ ReqReturn(Caller)
    \/ Cancel(Caller)
    \/ AwaitTimer

SpecRequest == InitClient /\ [][NextRequest]_vars

\* One caller of doRequest on a client with a Logger.
NextRequestLogged ==
    \/ CallDoRequest(Caller)
    \/ ReqStep(Caller, RetryAfterHeaders)
    \/ \E sc \in {200} \cup ErrorStatuses : ReqReadBodyError(Caller, sc)
    \/ ReqReturn(Caller)
    \/ Cancel(Caller)
    \/ AwaitTimer

SpecRequestLogged == InitLogged /\ [][NextRequestLogged]_vars

\* One caller of Lookup.
NextLookup ==
    \/ \E r \in LookupRequests : CallLookup(Caller, r)
    \/ ReqStep(Caller, LookupRetryAfterHeaders)
    \/ LookupAfterRequest(Caller)
    \/ LookupReturn(Caller)
    \/ Cancel(Caller)
    \/ AwaitTimer

SpecLookup == InitClient /\ [][NextLookup]_vars

\* One caller of executeLookupIDs.
NextLookupIDs ==
    \/ \E d \in IDsModels : CallExecuteLookupIDs(Caller, d)
    \/ \E d \in IDsModels : CallExecuteLookupIDsEmpty(Caller, d)
    \/ ReqStep(Caller, LookupRetryAfterHeaders)
    \/ LookupAfterRequest(Caller)
    \/ IDsAfterLookup(Caller)
    \/ Cancel(Caller)
    \/ AwaitTimer

SpecLookupIDs == InitClient /\ [][NextLookupIDs]_vars

\* One caller of executeLookup, on a bucket that starts empty.
NextExecuteLookup ==
    \/ \E d \in DataModels : CallExecuteLookup(Caller, d)
    \/ ReqStep(Caller, LookupRetryAfterHeaders)
    \/ LookupAfterRequest(Caller)
    \/ IDsAfterLookup(Caller)
    \/ URLsAfterLookup(Caller)
    \/ Int64FieldAfterLookup(Caller)
    \/ StringFieldAfterLookup(Caller)
    \/ Cancel(Caller)
    \/ AwaitTimer

SpecExecuteLookup == InitDrained /\ [][NextExecuteLookup]_vars

----------------------------------------------------------------------------
(* Properties.                                                             *)

\* The operation p invoked has returned.
Returned(p, op) == call[p] = op /\ pc[p] = "idle" /\ ret[p] # "none"

\* Every answer in h is a 429 with a usable Retry-After.
AllValid429(h) == \A i \in DOMAIN h : h[i] = "429v"

\* C1: once executeLookupIDs has processed all chunks with some identifier
\* recorded missing, it returns the not-found error listing the missing ids
\* together with the accumulated result list of all chunks.
C1_PartialResultsReturned ==
    \A p \in Procs :
        (/\ Returned(p, "executeLookupIDs")
         /\ outDiags[p].kind # "API Request Failed"
         /\ Len(allMissingIDs[p]) > 0)
        => /\ outDiags[p] = [kind |-> "Resources Not Found", ids |-> allMissingIDs[p]]
           /\ outResults[p] = results[p]

\* The requested ids that are the trackId of no item, in request order.
NotReturned(ids, items) ==
    LET absent(id) == \A i \in DOMAIN items : items[i].TrackID # id
    IN  SelectSeq(ids, absent)

\* C2: a Lookup by ids that got a 200 with a decodable body returns the
\* server's list unchanged, and a NotFoundError exactly when some requested id
\* is the trackId of no returned item, carrying those ids in request order.
C2_LookupReconciliation ==
    \A p \in Procs :
        (/\ call[p] = "Lookup"
         /\ pc[p] \in {"lk_ret", "idle"}
         /\ Len(req[p].IDs) > 0
         /\ rqOut[p] = "ok"
         /\ body[p].valid)
        => /\ lkRes[p] = Response(body[p].Results)
           /\ lkErr[p] = IF NotReturned(req[p].IDs, body[p].Results) # <<>>
                         THEN NotFoundError(NotReturned(req[p].IDs, body[p].Results))
                         ELSE NoError

\* C2 witness: ids <<1, 2, 1>> against a server that returns track 2 only.
C2_Witness ==
    \E p \in Procs :
        /\ Returned(p, "Lookup")
        /\ req[p].IDs = <<1, 2, 1>>
        /\ lkRes[p] = Response(<<[TrackID |-> 2]>>)
        /\ lkErr[p] = NotFoundError(<<1, 1>>)

C4_RetryThenSuccess ==
    \A p \in Procs :
        /\ (hist[p] = <<"429v">> /\ ~ctxDone[p])
           => (pc[p] \in {"req_select", "req_send"} /\ rqOut[p] = "none")
        /\ (Len(hist[p]) >= 2 /\ hist[p][1] = "429v" /\ hist[p][2] = "200")
           => (Len(hist[p]) = 2 /\ attempts[p] = 2 /\ rqOut[p] = "ok"
               /\ pc[p] \in {"rq_ret", "idle"})

C4_Witness ==
    \E p \in Procs :
        /\ Returned(p, "doRequest")
        /\ hist[p] = <<"429v", "200">>
        /\ attempts[p] = 2
        /\ ret[p] = "ok"

\* C5: a 429 without a usable Retry-After is the last answer of its call:
\* the call has failed, with no sleep and no attempt after it.
C5_NoRetryWithoutGuidance ==
    \A p \in Procs :
        \A i \in DOMAIN hist[p] :
            hist[p][i] = "429n"
            => /\ i = Len(hist[p])
               /\ attempts[p] = i
               /\ pc[p] \in {"rq_ret", "idle"}
               /\ rqOut[p] \in {"no_retry_after", "exhausted"}
               /\ (i < MaxRetries => rqOut[p] = "no_retry_after")

C5_Witness ==
    \E p \in Procs :
        /\ Returned(p, "doRequest")
        /\ hist[p] = <<"429n">>
        /\ attempts[p] = 1
        /\ ret[p] = "no_retry_after"

\* C6: doRequest makes up to MaxRetries retries: a call whose first
\* MaxRetries answers are all 429 with a usable Retry-After has not given up
\* (its next attempt, the MaxRetries-th retry, is still to come).
C6_MaxRetriesRetries ==
    \A p \in Procs :
        (AllValid429(hist[p]) /\ Len(hist[p]) <= MaxRetries)
        => rqOut[p] # "exhausted"

\* C7: when the context is cancelled while doRequest is parked in its retry
\* sleep, the sleep ends with the cancellation error: the call does not reach
\* another send.
C7_CancelDuringSleep ==
    \A p \in Procs :
        cancelledInSleep[p]
        => \/ pc[p] = "req_select" /\ woke[p] = "ctx"
           \/ pc[p] \in {"rq_ret", "idle"} /\ rqOut[p] = "cancelled"

C7_Witness ==
    \E p \in Procs :
        /\ Returned(p, "doRequest")
        /\ cancelledInSleep[p]
        /\ ret[p] = "cancelled"
        /\ attempts[p] = 1

\* C8 as stated: a take called with an already-cancelled context returns the
\* cancellation error without blocking, whatever the bucket holds.
C8_CancelledTakeFails ==
    \A p \in Procs :
        (Returned(p, "take") /\ ctxAtCall[p])
        => (ret[p] = "cancelled" /\ ~blocked[p])

\* C8 amended: a take called with an already-cancelled context never blocks;
\* it returns the cancellation error when its check finds less than one token
\* and succeeds when the check finds a whole token.
C8_CancelledTakeNeverBlocks ==
    \A p \in Procs :
        (call[p] = "take" /\ ctxAtCall[p])
        => /\ ~blocked[p]
           /\ Returned(p, "take") => (ret[p] = "cancelled" <=> ~sawToken[p])
           /\ Returned(p, "take") => (ret[p] = "ok" <=> sawToken[p])

\* C8 witness: both outcomes of a take with a cancelled context occur.
C8_Witness ==
    /\ \E p \in Procs :
        Returned(p, "take") /\ ctxAtCall[p] /\ ret[p] = "cancelled" /\ ~blocked[p]
    /\ \E p \in Procs :
        Returned(p, "take") /\ ctxAtCall[p] /\ ret[p] = "ok"

\* C9: within a window of RateLimitDuration the limiter grants at most
\* RateLimitRequests tokens (here the window that starts at construction).
C9_WindowBound ==
    now < RateLimitDuration => granted <= RateLimitRequests

\* C10: as long as no time has passed since construction, the bucket holds
\* what has not been granted, no successful take has blocked, and a take
\* waits only when RateLimitRequests tokens have been granted (and then, with
\* a live context, it blocks).
C10_InitialCapacity ==
    now = 0
    => /\ granted <= RateLimitRequests
       /\ tokens = (RateLimitRequests - granted) * TokenUnit
       /\ \A p \in Procs :
            /\ (call[p] = "take" /\ takeErr[p] = "nil" /\ pc[p] = "take_ret")
               => ~blocked[p]
            /\ Returned(p, "take") /\ ret[p] = "ok" => ~blocked[p]
            /\ pc[p] = "take_select"
               => /\ granted = RateLimitRequests
                  /\ ~ctxDone[p] => (blocked[p] /\ woke[p] = "park")

C10_Witness ==
    /\ now = 0
    /\ granted = RateLimitRequests
    /\ \E p \in Procs : pc[p] = "take_select" /\ blocked[p] /\ woke[p] = "park"

\* C11: whenever the bucket's lock is free (outside take's critical
\* section), under any interleaving of takes and passage of time, the bucket
\* holds between 0 and maxTokens.
C11_TokensInRange ==
    mu = NoProc => (0 <= tokens /\ tokens <= maxTokens)

\* C11 witness: the lower end, after refills, with a caller waiting on the
\* empty bucket and the lock free.
C11_Witness ==
    /\ mu = NoProc
    /\ tokens = 0
    /\ granted > RateLimitRequests
    /\ now > 0
    /\ \E p \in Procs : pc[p] = "take_select" /\ woke[p] = "park"

\* C12: a take that makes its first check on an empty bucket once the time
\* elapsed since the last refill is worth at least one token is granted by
\* that check: it does not enter the wait.
C12_RefillGrantsAfterWait ==
    [][\A p \in Procs :
          (/\ pc[p] = "take_crit"
           /\ ~blocked[p]
           /\ tokens = 0
           /\ (now - lastRefillTime) * refillRate >= TokenUnit
           /\ pc'[p] # pc[p])
          => (/\ pc'[p] = "take_ret"
              /\ takeErr'[p] = "nil"
              /\ granted' = granted + 1
              /\ ~blocked'[p])]_vars

\* C12 witness: the only caller, never cancelled, was granted a token without
\* blocking on the bucket that was empty at time 0, TokenUnit / refillRate
\* seconds later.
C12_Witness ==
    /\ Returned(Caller, "take")
    /\ ret[Caller] = "ok"
    /\ ~blocked[Caller]
    /\ ~ctxDone[Caller]
    /\ granted = RateLimitRequests + 1
    /\ lastRefillTime * refillRate = TokenUnit
    /\ tokens = 0

\* The concatenation of the chunks, in order.
RECURSIVE Concatenation(_)
Concatenation(chunks) ==
    IF chunks = <<>> THEN <<>>
    ELSE Concatenation(SubSeq(chunks, 1, Len(chunks) - 1)) \o chunks[Len(chunks)]

\* C16: for a list of N items and a batch size B >= 1, ChunkInt64 and
\* ChunkStrings return ceil(N / B) chunks, each non-empty and no longer than
\* B, all but the last of length B, whose concatenation is the list; the
\* empty list gives no chunk.
C16_ChunkRoundTrip ==
    (fn \in {"ChunkInt64", "ChunkStrings"} /\ result.returned)
    => LET N == Len(args.list)
           B == args.batchSize
           chunks == result.value
       IN  /\ Len(chunks) = (N + B - 1) \div B
           /\ \A k \in DOMAIN chunks :
                /\ Len(chunks[k]) >= 1
                /\ Len(chunks[k]) <= B
                /\ k < Len(chunks) => Len(chunks[k]) = B
           /\ Concatenation(chunks) = args.list
           /\ (N = 0 => chunks = <<>>)

\* C16 witness: a list of MaxListLen items in batches of MaxListLen - 1 gives
\* a full chunk and a last chunk of one item.
C16_Witness ==
    /\ fn = "ChunkInt64"
    /\ result.returned
    /\ Len(args.list) = MaxListLen
    /\ args.batchSize = MaxListLen - 1
    /\ Len(result.value) = 2
    /\ Len(result.value[2]) = 1

\* C13: an attempt that ends in a transport error or in a status other than
\* 200 and 429 is the last attempt of its call, first attempt or not: the
\* call has ended with the matching error and without a response.
C13_NonRetryableFailures ==
    \A p \in Procs :
        \A i \in DOMAIN hist[p] :
            hist[p][i] \in {"neterr", "other"}
            => /\ i = Len(hist[p])
               /\ attempts[p] = i
               /\ pc[p] \in {"rq_ret", "idle"}
               /\ rqOut[p] = (IF hist[p][i] = "neterr" THEN "transport" ELSE "status")
               /\ rqErr[p].type # "nil"
               /\ body[p] = NoBody

\* C13 witness: a status other than 200 and 429 on the attempt after a 429 retry.
C13_Witness ==
    \E p \in Procs :
        /\ Returned(p, "doRequest")
        /\ hist[p] = <<"429v", "other">>
        /\ ret[p] = "status"
        /\ ~ctxDone[p]

\* C14: when the response status is neither 200 nor 429, doRequest fails
\* with an APIError value whose StatusCode is the response's status.
C14_APIErrorCarriesStatus ==
    \A p \in Procs :
        (rqOut[p] = "status" /\ status[p] \in ErrorStatuses)
        => (rqErr[p].type = "APIError" /\ rqErr[p].code = status[p])

\* C15: when doRequest enters its retry sleep on a 429 whose Retry-After
\* parsed to s seconds, the sleep lasts min(s + 1, MaxRetryWait) seconds,
\* which is at most MaxRetryWait.
C15_RetrySleep ==
    [][\A p \in Procs :
          (pc[p] = "req_send" /\ pc'[p] = "req_select")
          => LET s == retryAfter'[p].secs
                 sleep == deadline'[p] - now
             IN  /\ sleep = (IF s + 1 < MaxRetryWait THEN s + 1 ELSE MaxRetryWait)
                 /\ sleep <= MaxRetryWait]_vars

\* The helpers of executeLookup that call Lookup.
Helpers == LookupCallers \ {"Lookup"}

\* The selector lists of request r that hold a value.
Populated(r) == {f \in Selectors : Len(r[f]) > 0}

\* C17: every LookupRequest that executeLookup's helpers give to Lookup has
\* exactly one selector list populated, and that list holds between one and
\* MaxLookupBatchSize values.
C17_OneSelectorPerRequest ==
    \A p \in Procs :
        (call[p] \in Helpers /\ dispatched[p] > 0)
        => /\ Cardinality(Populated(req[p])) = 1
           /\ \A f \in Populated(req[p]) :
                  1 <= Len(req[p][f]) /\ Len(req[p][f]) <= MaxLookupBatchSize

\* A string-field helper has given Lookup the request of its second batch,
\* a full one.
C17_Witness ==
    \E p \in Procs :
        /\ call[p] = "executeLookupStringField"
        /\ dispatched[p] = 2
        /\ Len(req[p].UPCs) = MaxLookupBatchSize
        /\ pc[p] = "req_send"

\* C18: Lookup called with a request that has no selector returns an error
\* before any network activity: it takes no token from the limiter and
\* sends no HTTP request.
C18_NoSelectorNoActivity ==
    \A p \in Procs :
        (call[p] = "Lookup" /\ dispatched[p] > 0 /\ Populated(req[p]) = {})
        => /\ pc[p] \in {"lk_ret", "idle"}
           /\ lkErr[p] = PlainError("no_selector")
           /\ lkRes[p].nil
           /\ attempts[p] = 0
           /\ hist[p] = <<>>
           /\ granted \in {0, RateLimitRequests}
           /\ tokens = InitialTokens - granted * TokenUnit
           /\ mu = NoProc
           /\ (pc[p] = "idle" => ret[p] = "no_selector")

\* Lookup has returned for a request with no selector, on a drained bucket.
C18_Witness ==
    \E p \in Procs :
        /\ Returned(p, "Lookup")
        /\ req[p] = EmptyRequest
        /\ ret[p] = "no_selector"
        /\ granted = RateLimitRequests

\* Some two URLs of the list are of different country stores.
Inconsistent(urls) == \E i, j \in DOMAIN urls : urls[i].country # urls[j].country

\* C19: executeLookupAppStoreURLs, given URLs that are not all of one
\* country store, returns the error "Inconsistent Countries" and no result,
\* and has given no request to Lookup: no token taken, nothing sent.
C19_InconsistentCountries ==
    \A p \in Procs :
        (call[p] = "executeLookupAppStoreURLs"
         /\ Inconsistent(ElementsAs(data[p].AppStoreURLs)))
        => /\ pc[p] = "idle"
           /\ ret[p] = "Inconsistent Countries"
           /\ outDiags[p].kind = "Inconsistent Countries"
           /\ outResults[p] = <<>>
           /\ dispatched[p] = 0
           /\ req[p] = EmptyRequest
           /\ attempts[p] = 0
           /\ granted = RateLimitRequests

\* The helper has returned for three URLs of which only the last one is of
\* another country store.
C19_Witness ==
    \E p \in Procs :
        /\ Returned(p, "executeLookupAppStoreURLs")
        /\ LET urls == ElementsAs(data[p].AppStoreURLs)
           IN  /\ Len(urls) = 3
               /\ urls[1].country = urls[2].country
               /\ urls[3].country # urls[1].country
        /\ ret[p] = "Inconsistent Countries"

\* The helpers for the selectors that are not track identifiers.
FieldHelpers == {"executeLookupInt64Field", "executeLookupStringField"}

\* C20: for a request whose IDs list is empty, Lookup never returns a
\* NotFoundError: a response that decodes is returned with a nil error
\* whatever results it holds, none included.  The field helpers report
\* nothing but a failed request ("API Request Failed").
C20_NoNotFoundWithoutIDs ==
    \A p \in Procs :
        (call[p] \in FieldHelpers /\ dispatched[p] > 0)
        => /\ req[p].IDs = <<>>
           /\ lkErr[p].kind # "not_found"
           /\ (pc[p] = "lk_ret" /\ rqOut[p] = "ok" /\ body[p].valid)
                 => (lkErr[p] = NoError /\ lkRes[p] = Response(body[p].Results))
           /\ outDiags[p].kind \in {"none", "API Request Failed"}
           /\ outDiags[p].kind = "API Request Failed"
                 => (lkErr[p].kind # "nil" /\ (rqOut[p] # "ok" \/ ~body[p].valid))

\* A string-field helper has returned without error although the server
\* answered its request with an empty result list.
C20_Witness ==
    \E p \in Procs :
        /\ Returned(p, "executeLookupStringField")
        /\ req[p].BundleIDs # <<>>
        /\ body[p].valid
        /\ body[p].Results = <<>>
        /\ ret[p] = "ok"
        /\ outResults[p] = <<>>

\* The function f has returned.
Computed(f) == fn = f /\ result.returned

\* C21: for a Lookup request with limit L > 0 the limit parameter of the
\* query is the decimal text of min(L, MaxLookupBatchSize), and a limit
\* parameter is never above MaxLookupBatchSize.
C21_LookupLimitCapped ==
    Computed("LookupQuery")
    => /\ args.Limit > 0
            => /\ "limit" \in DOMAIN result.value
               /\ result.value["limit"] = FormatInt(Min(args.Limit, MaxLookupBatchSize))
       /\ "limit" \in DOMAIN result.value
            => result.value["limit"] \in {FormatInt(n) : n \in 1..MaxLookupBatchSize}

\* The query of a bundle-id request whose limit is above the cap.
C21_Witness ==
    /\ Computed("LookupQuery")
    /\ args.BundleIDs # <<>>
    /\ args.Limit > MaxLookupBatchSize
    /\ result.value["limit"] = FormatInt(MaxLookupBatchSize)

\* C22: for a Search request with limit L > 0 the limit parameter of the
\* query is the decimal text of min(L, MaxLookupBatchSize).
C22_SearchLimitCapped ==
    (Computed("SearchQuery") /\ args.Limit > 0)
    => /\ "limit" \in DOMAIN result.value
       /\ result.value["limit"] = FormatInt(Min(args.Limit, MaxLookupBatchSize))

\* The parameters a Search request is to be sent with.
SearchKeys(r) ==
    {"term", "media"}
    \cup (IF r.Entity # "" THEN {"entity"} ELSE {})
    \cup (IF r.Country # "" THEN {"country"} ELSE {})
    \cup (IF r.Attribute # "" THEN {"attribute"} ELSE {})
    \cup (IF r.Lang # "" THEN {"lang"} ELSE {})
    \cup (IF r.Callback # "" THEN {"callback"} ELSE {})
    \cup (IF r.Limit > 0 THEN {"limit"} ELSE {})
    \cup (IF r.Version > 0 THEN {"version"} ELSE {})
    \cup (IF ~r.Offset.nil THEN {"offset"} ELSE {})
    \cup (IF ~r.Explicit.nil THEN {"explicit"} ELSE {})

\* C24: the query of a Search request holds term and media (media is "all"
\* when unset); entity, country, attribute, lang and callback when they are
\* not empty; limit and version when they are above zero; offset and
\* explicit when supplied, explicit as "Yes" or "No"; and nothing else.
C24_SearchQuery ==
    Computed("SearchQuery")
    => LET q == result.value
       IN  /\ DOMAIN q = SearchKeys(args)
           /\ q["term"] = Str(args.Term)
           /\ q["media"] = IF args.Media = "" THEN <<"all">> ELSE <<args.Media>>
           /\ \A k \in DOMAIN q :
                 /\ k = "entity" => q[k] = <<args.Entity>>
                 /\ k = "country" => q[k] = <<args.Country>>
                 /\ k = "attribute" => q[k] = <<args.Attribute>>
                 /\ k = "lang" => q[k] = <<args.Lang>>
                 /\ k = "callback" => q[k] = <<args.Callback>>
                 /\ k = "version" => q[k] = FormatInt(args.Version)
                 /\ k = "offset" => q[k] = FormatInt(args.Offset.value)
                 /\ k = "explicit" => q[k] = IF args.Explicit.value
                                             THEN <<"Yes">> ELSE <<"No">>

\* The query of a request with media unset, explicit false, offset zero and
\* a negative version.
C24_Witness ==
    /\ Computed("SearchQuery")
    /\ args.Media = ""
    /\ args.Explicit = Ptr(FALSE)
    /\ args.Offset = Ptr(0)
    /\ args.Version < 0
    /\ args.Callback # ""
    /\ result.value["explicit"] = <<"No">>
    /\ "version" \notin DOMAIN result.value

\* Every character of b is whitespace.
AllSpace(b) == \A i \in DOMAIN b : b[i] \in {" ", "\t"}

\* The payloads p for which body is cb(p), followed or not by one
\* semicolon, with whitespace or nothing before and after.
Payloads(b, cb) ==
    {SubSeq(b, i + Len(cb) + 2, j - 1) :
        <<i, j>> \in {<<i, j>> \in (0..Len(b)) \X (0..Len(b)) :
            /\ i + Len(cb) + 2 <= j
            /\ AllSpace(SubSeq(b, 1, i))
            /\ SubSeq(b, i + 1, i + Len(cb)) = cb
            /\ b[i + Len(cb) + 1] = "("
            /\ b[j] = ")"
            /\ \/ AllSpace(SubSeq(b, j + 1, Len(b)))
               \/ /\ j < Len(b)
                  /\ b[j + 1] = ";"
                  /\ AllSpace(SubSeq(b, j + 2, Len(b)))}}

----------------------------------------------------------------------------
(* The bucket under concurrent callers.                                    *)

\* C25: whatever the interleaving of concurrent take calls, the tokens
\* granted up to now are at most maxTokens + refillRate * now. Every grant
\* is paid for out of the bucket and every span of time is credited at
\* most once: the tokens in the bucket and the tokens granted together
\* never exceed the initial fill and the refill up to lastRefillTime, and
\* the bucket is never overdrawn.
C25_TokenConservation ==
    /\ tokens >= 0
    /\ lastRefillTime <= now
    /\ tokens + granted * TokenUnit <= maxTokens + refillRate * lastRefillTime
    /\ granted * TokenUnit <= maxTokens + refillRate * now

\* Both callers are inside take, and every token there ever was has been
\* granted: the initial fill and the refill of the time since.
C25_Witness ==
    /\ \A p \in Procs : call[p] = "take" /\ pc[p] # "idle"
    /\ now > 0
    /\ granted > RateLimitRequests
    /\ granted * TokenUnit = maxTokens + refillRate * now

\* C26: counting the retries after 429, the HTTP requests sent by all the
\* callers of one client are never more than the tokens the limiter has
\* granted. The requests a running doRequest has sent are among them, so
\* no call has sent more requests than tokens were ever granted.
C26_AttemptsWithinGrants == \A p \in Procs : attempts[p] <= granted

\* The callers between Lock and Unlock of take, lines 38-56.
InCritical == {p \in Procs : pc[p] = "take_crit"}

\* The callers blocked in the select of take, lines 58-62.
Waiting == {p \in Procs : pc[p] = "take_select"}

\* C27: the lock is held only during the refill-and-decrement step. Its
\* holder is the one caller inside the critical section; no caller holds
\* it while it is blocked in the wait or once take has returned; so while
\* callers wait and nobody is in the critical section the lock is free for
\* any other caller's own check.
C27_LockOnlyInCritical ==
    /\ \A p \in Procs : mu = p <=> p \in InCritical
    /\ \A p, q \in InCritical : p = q
    /\ \A p \in Procs : pc[p] \in {"take_select", "take_ret", "idle"} => mu # p
    /\ (Waiting # {} /\ InCritical = {}) => mu = NoProc

\* One caller is parked in the wait while another is inside the critical
\* section, running its own check.
C27_Witness ==
    \E p, q \in Procs :
        /\ p \in Waiting
        /\ woke[p] = "park"
        /\ q \in InCritical
        /\ mu = q

\* C28: with refillRate > 0, finitely many concurrent callers making
\* finitely many take calls, time advancing and no cancellation, every
\* take call eventually returns success: no caller waits forever.
C28_TakeEventuallyGranted ==
    \A p \in Procs :
        (call[p] = "take" /\ pc[p] # "idle") ~> (pc[p] = "idle" /\ ret[p] = "ok")

\* Both callers had to wait for a refill, in the same window, and both
\* takes have returned success.
C28_Witness ==
    /\ refillRate > 0
    /\ granted = RateLimitRequests + ExtraTakes
    /\ \A p \in Procs : blocked[p] /\ pc[p] = "idle" /\ ret[p] = "ok"

----------------------------------------------------------------------------
(* doRequest and the limiter.                                              *)

\* The caller is inside the take of its doRequest, line 182.
InTake(p) == pc[p] \in {"take_lock", "take_crit", "take_select", "take_ret"}

\* C29: within one doRequest nothing is sent before the limiter has granted
\* the call a token: while take runs no request is sent or logged, and a
\* call that has sent one was granted a token. When the wait in the
\* limiter ends by cancellation the call returns the limiter's
\* cancellation error, wrapped, having sent no HTTP request and given the
\* Logger no LogRequest (nor anything else).
C29_TokenBeforeRequest ==
    \A p \in Procs :
        /\ InTake(p) => attempts[p] = 0 /\ logs[p] = <<>>
        /\ attempts[p] > 0 => sawToken[p] /\ takeErr[p] = "nil"
        /\ (call[p] = "doRequest" /\ pc[p] \in {"rq_ret", "idle"} /\ takeErr[p] = "ctx")
           => /\ rqOut[p] = "limiter"
              /\ rqErr[p] = WrapError("rate limiter error: %w")
              /\ attempts[p] = 0
              /\ \A i \in 1..Len(logs[p]) : logs[p][i] # LogRequest
              /\ logs[p] = <<>>

\* A doRequest on a client with a Logger was parked in the limiter's wait,
\* was cancelled there and has returned.
C29_Witness ==
    \E p \in Procs :
        /\ logger
        /\ Returned(p, "doRequest")
        /\ blocked[p]
        /\ ~ctxAtCall[p]
        /\ takeErr[p] = "ctx"
        /\ ret[p] = "limiter"

\* C30: a take that returns cancelled has consumed no token. Each of its
\* checks that found no token left the refilled count in the bucket, with
\* nothing subtracted and nothing counted as granted; its return changes
\* neither; and a cancelled return comes from the wait only, never after
\* the decrement of line 49.
C30_CancelledTakeTakesNothing ==
    [][\A p \in Procs :
         /\ (pc[p] = "take_crit" /\ pc'[p] = "take_select")
            => tokens' = Refilled /\ tokens' <= maxTokens /\ granted' = granted
         /\ (pc[p] = "take_select" /\ pc'[p] = "take_ret")
            => takeErr'[p] = "ctx" /\ tokens' = tokens /\ granted' = granted
         /\ (pc[p] # "take_ret" /\ pc'[p] = "take_ret" /\ takeErr'[p] = "ctx")
            => pc[p] = "take_select" /\ ~sawToken[p]]_vars

\* One caller's take was cancelled in the wait and has returned, and the
\* token refilled since then has gone to the other caller.
C30_Witness ==
    \E p, q \in Procs :
        /\ p # q
        /\ Returned(p, "take")
        /\ ret[p] = "cancelled"
        /\ blocked[p]
        /\ Returned(q, "take")
        /\ ret[q] = "ok"
        /\ granted = RateLimitRequests + 1
        /\ now * refillRate < 2 * TokenUnit

----------------------------------------------------------------------------
(* The batches of one lookup.                                              *)

\* The helpers that look up track ids: by ids and by App Store URLs.
IDHelpers == {"executeLookupIDs", "executeLookupAppStoreURLs"}

\* Lookup has returned to the helper's loop for chunk bi.
ChunkAnswered(p) == pc[p] = "lk_ret" /\ call[p] \in Helpers

\* The helper's loop processes the answer for chunk bi.
ChunkProcessed(p) == ChunkAnswered(p) /\ pc'[p] # pc[p]

\* C31: in a lookup by ids or URLs, a chunk whose response misses some of
\* the requested ids does not stop the batch: the results the chunk did
\* return are appended to the accumulator, its missing ids are recorded
\* (as ids, or as the URLs of those ids), and the next chunk, if there is
\* one, is dispatched.
C31_MissingIDsDoNotStop ==
    [][\A p \in Procs :
         (ChunkProcessed(p) /\ call[p] \in IDHelpers /\ lkErr[p].kind = "not_found")
         => /\ results'[p] = results[p] \o body[p].Results
            /\ call[p] = "executeLookupIDs"
               => allMissingIDs'[p] = allMissingIDs[p] \o lkErr[p].MissingIDs
            /\ call[p] = "executeLookupAppStoreURLs"
               => /\ Len(allMissingURLs'[p]) >= Len(allMissingURLs[p]) + Len(lkErr[p].MissingIDs)
                  /\ \A i \in DOMAIN lkErr[p].MissingIDs :
                        \E j \in DOMAIN allMissingURLs'[p] :
                            allMissingURLs'[p][j].id = lkErr[p].MissingIDs[i]
            /\ bi[p] < Len(batches[p])
               => /\ pc'[p] = "take_lock"
                  /\ bi'[p] = bi[p] + 1
                  /\ dispatched'[p] = dispatched[p] + 1
                  /\ req'[p].IDs = batches[p][bi[p] + 1]]_vars

\* The first chunk's response missed its id and returned something else;
\* the second chunk is on its way.
C31_Witness ==
    \E p \in Procs :
        /\ call[p] = "executeLookupIDs"
        /\ bi[p] = 2
        /\ dispatched[p] = 2
        /\ pc[p] = "req_send"
        /\ allMissingIDs[p] # <<>>
        /\ results[p] # <<>>

\* The selector list of the requests a running helper gives to Lookup.
ChunkField(p) == IF call[p] \in IDHelpers THEN "IDs" ELSE helper[p].setter

\* The identifiers a running helper was given, in input order.
InputList(p) ==
    IF call[p] = "executeLookupAppStoreURLs"
    THEN [i \in DOMAIN ElementsAs(data[p].AppStoreURLs) |->
              parseAppStoreURL(ElementsAs(data[p].AppStoreURLs)[i]).trackID]
    ELSE ElementsAs(data[p][ChunkField(p)])

\* The helper's loop is at chunk bi: the chunks are the input in input
\* order, bi Lookup calls have been made, and the last one asked for chunk bi.
AtChunk(p) ==
    /\ Concatenation(batches[p]) = InputList(p)
    /\ bi[p] \in 1..Len(batches[p])
    /\ dispatched[p] = bi[p]
    /\ req[p][ChunkField(p)] = batches[p][bi[p]]

\* C32: within one batch lookup the chunks are dispatched in input order
\* and one at a time: the k-th Lookup call asks for the k-th chunk, and a
\* call is made only when the helper starts or has processed the answer for
\* the chunk before. Each answer's results go to the end of the
\* accumulator, and on success the accumulator is the returned list: the
\* concatenation of the chunks' results in chunk order.
C32_ChunksInOrder ==
    [][\A p \in Procs :
         /\ (call'[p] \in Helpers /\ pc'[p] # "idle") => AtChunk(p)'
         /\ dispatched'[p] # dispatched[p]
            => /\ pc[p] = "idle" \/ ChunkProcessed(p)
               /\ dispatched'[p] = IF pc[p] = "idle" THEN 1 ELSE dispatched[p] + 1
         /\ (ChunkProcessed(p) /\ lkErr[p].kind = "nil")
            => results'[p] = results[p] \o body[p].Results
         /\ (ChunkProcessed(p) /\ pc'[p] = "idle" /\ ret'[p] = "ok")
            => /\ bi[p] = Len(batches[p])
               /\ outResults'[p] = results'[p]]_vars

\* A helper has returned the results of its two chunks, different ones.
C32_Witness ==
    \E p \in Procs :
        /\ Returned(p, "executeLookupInt64Field")
        /\ ret[p] = "ok"
        /\ Len(batches[p]) = 2
        /\ dispatched[p] = 2
        /\ Len(outResults[p]) >= 2
        /\ outResults[p][1] # outResults[p][Len(outResults[p])]

----------------------------------------------------------------------------
(* doRequest and the Logger.                                               *)

\* The events of one kind among those a call gave to the Logger.
Events(l, e) == {i \in DOMAIN l : l[i].event = e}

\* C33: with a Logger attached a LogRequest is emitted before each HTTP
\* attempt is sent, retries after 429 included, so the LogRequest events of
\* a call are never fewer than the attempts it has sent, and as many when
\* the call has returned after a response.
C33_LogRequestPerAttempt ==
    \A p \in Procs :
        logger
        => /\ Cardinality(Events(logs[p], "LogRequest")) >= attempts[p]
           /\ (pc[p] \in {"rq_ret", "idle"} /\ attempts[p] > 0)
              => Cardinality(Events(logs[p], "LogRequest")) = attempts[p]

\* C34: attaching a Logger does not change the outcome of doRequest. The
\* executor without a Logger returns the response of a 200 answer, and
\* the status error of an answer other than 200 and 429, whatever becomes
\* of the body; so does, for the same answers, the executor with one.
C34_LoggerKeepsOutcome ==
    \A p \in Procs :
        (pc[p] \in {"rq_ret", "idle"} /\ hist[p] # <<>>)
        => /\ hist[p][Len(hist[p])] = "200" => rqOut[p] = "ok"
           /\ hist[p][Len(hist[p])] = "other" => rqOut[p] = "status"

----------------------------------------------------------------------------
(* The limit of a chunk's request.                                         *)

----------------------------------------------------------------------------
(* The order of the checks after a 429.                                    *)

\* The answers of the call so far are all 429.
All429(h) == \A i \in DOMAIN h : h[i] \in {"429v", "429n"}

----------------------------------------------------------------------------
(* A chunk that fails.                                                     *)

\* Lookup has returned an error that is not a *NotFoundError.
ChunkFailed(p) == lkErr[p].kind \notin {"nil", "not_found"}

\* C37: when a chunk of a batch lookup fails with an error other than
\* NotFoundError the helper stops at once: it returns with that step, no
\* later chunk is dispatched, and it returns no results and no report of
\* missing ids from the chunks processed before, only the request-failure
\* error.
C37_FailureStopsBatch ==
    [][\A p \in Procs :
         (ChunkProcessed(p) /\ ChunkFailed(p))
         => /\ pc'[p] = "idle"
            /\ dispatched'[p] = dispatched[p]
            /\ bi'[p] = bi[p]
            /\ outResults'[p] = <<>>
            /\ outDiags'[p] = [kind |-> "API Request Failed", ids |-> <<>>]
            /\ ret'[p] = "API Request Failed"]_vars

\* The second of three chunks failed after the first had brought results
\* and a missing id: the helper has returned the failure alone.
C37_Witness ==
    \E p \in Procs :
        /\ Returned(p, "executeLookupAppStoreURLs")
        /\ ChunkFailed(p)
        /\ Len(batches[p]) = 3
        /\ dispatched[p] = 2
        /\ results[p] # <<>>
        /\ allMissingURLs[p] # <<>>
        /\ outResults[p] = <<>>
        /\ ret[p] = "API Request Failed"

----------------------------------------------------------------------------
(* The URLs reported as not found.                                         *)

\* C38: in a lookup by URLs, the URLs reported as not found are exactly the
\* input URLs whose own parsed track id the API did not find: a URL whose
\* track id was found is never reported, whatever other ids are missing,
\* and each URL is reported at most once.
C38_MissingURLsExact ==
    Computed("MissingURLsOfBatch")
    => /\ Range(result.value) =
             {args.urls[i] : i \in {j \in DOMAIN args.urls :
                                       parseAppStoreURL(args.urls[j]).trackID
                                           \notin args.found}}
       /\ Distinct(result.value)

----------------------------------------------------------------------------
(* Response bodies.                                                        *)

\* C39: doRequest never leaks a response body. When it has returned an
\* error, every response body received during the call has been closed;
\* when it has returned a response, exactly one body is open, the one
\* handed to the caller.
C39_NoBodyLeaked ==
    \A p \in Procs :
        pc[p] \in {"rq_ret", "idle"}
        => /\ rqOut[p] = "ok" => unclosed[p] = 1
           /\ rqOut[p] \notin {"ok", "none"} => unclosed[p] = 0

============================================================================
